---- MODULE Spec2Model ----
(***************************************************************************)
(* A model of the Reflex inbound proxy (xray-core/proxy/reflex/inbound):   *)
(* the AEAD frame codec and its Session, protocol detection, the           *)
(* handshake with its nonce store, and the fallback relay.                 *)
(*                                                                         *)
(* The module holds several specifications over one set of variables:      *)
(*   SpecFrames  writer tasks calling Session.WriteFrame step by step and  *)
(*               a reader calling Session.ReadFrame on the wire bytes      *)
(*   SpecTs      validateHandshakeTimestamp on 64-bit wire timestamps      *)
(*   SpecConn    Handler.Process on concurrent connections: detection,     *)
(*               handshake parsing, processHandshake, fallback             *)
(* Variables a specification does not use keep their initial value.        *)
(***************************************************************************)
EXTENDS Integers, Sequences, FiniteSets, TLC

VARIABLES
    \* ---- frame codec (session.go) ----
    wsess,      \* the writing peer's Session
    rsess,      \* the reading peer's Session (same key)
    writeMu,    \* holder of wsess.writeMu: a task id, or 0 when free
    wpc,        \* per writer task: position inside WriteFrame
    wloc,       \* per writer task: locals of its WriteFrame call
    wire,       \* what the writer's io.Writer received, piece by piece
    connOK,     \* the writer's connection still accepts writes
    rpos,       \* number of wire pieces the reader has consumed in order
    calls,      \* history: WriteFrame calls that returned, in order
    reads,      \* history: ReadFrame calls that returned, in order (rn: the
                \* read counter when the call began)
    sealLog,    \* history: counter values handed to aead.Seal
    openLog,    \* history: counter values handed to aead.Open
    nReplays,   \* number of re-submitted frames so far
    \* ---- handshake timestamp (handshake.go) ----
    tsIn,       \* the 8 timestamp bytes read from the wire, as an unsigned value
    tsHS,       \* ClientHandshake.Timestamp parsed from them
    tsRes,      \* result of validateHandshakeTimestamp: "none", "ok", "err"
    \* ---- Handler and its connections (inbound.go, handshake.go) ----
    hfallback,  \* Handler.fallback: [isNil, Dest]
    seenNonces, \* Handler.seenNonces: nonce -> Unix second of insertion
    nonceMu,    \* holder of Handler.nonceMu: a connection, or 0 when free
    cin,        \* per connection: the byte stream the client sends
    cpc,        \* per connection: position inside Process
    rdpos,      \* per connection: bytes consumed from the bufio.Reader
    cfill,      \* per connection: bytes the bufio.Reader has read from conn
    chs,        \* per connection: the parsed ClientHandshake
    cout,       \* per connection: HTTP responses written to the client
    cret,       \* per connection: what Process returned ("pending" before)
    clog,       \* per connection: history of what Process did and saw
    fbRecv,     \* per connection: stream intervals the fallback target got
    nTicks,     \* number of clock steps so far
    \* ---- one session: handleSession and its forwarder (session.go) ----
    ssess,      \* the server's Session of the connection
    profile,    \* its TrafficProfile: [isNil, PacketSizes, Delays,
                \* nextPacketSize, nextDelay]
    mtask,      \* per task: position inside WriteFrameWithMorphing
    mout,       \* frames the server wrote to the client connection
    loop,       \* handleSession: position, link, frames read, return value
    up,         \* the upstream link, upstreamErr and the forwarder task
    client,     \* what the client has sent on the connection so far
    \* ---- traffic profiles and statistics (profile code, stats.go) ----
    pheap,      \* the TrafficProfile objects by address: the templates of
                \* Profiles (at their names) and the sessions' profiles
    sprofile,   \* per session: Session.profile, an address or "nil"
    pmu,        \* per TrafficProfile object: holder of its mu, or 0 when free
    ptask,      \* per task: position and locals of its call on a profile
    plog,       \* history: calls on profiles that returned, in order
    obs,        \* CreateProfileFromObservations: arguments and result
    ks,         \* KolmogorovSmirnovStatistic: arguments, results, slices
    \* ---- a reader on its own (session.go) ----
    win,        \* a Session reading a peer's frames: [sess, next (frames of
                \* the peer read), open, good (those returned), last (the
                \* latest call), log (the other items read)]
    \* ---- functions on their own (profile code, handshake.go) ----
    pk,         \* weightedPickSize: arguments and result
    hp,         \* the two handshake parsers: input and results
    \* ---- shared ----
    clock       \* wall clock: [sec, nsec] since the Unix epoch

frameVars == <<wsess, rsess, writeMu, wpc, wloc, wire, connOK, rpos, calls,
               reads, sealLog, openLog, nReplays>>
tsVars == <<tsIn, tsHS, tsRes>>
connVars == <<hfallback, seenNonces, nonceMu, cin, cpc, rdpos, cfill, chs, cout, cret,
              clog, fbRecv, nTicks>>
sessVars == <<ssess, profile, mtask, mout, loop, up, client>>
unitVars == <<win, pk, hp>>
libVars == <<pheap, sprofile, pmu, ptask, plog, obs, ks, unitVars>>
vars == <<frameVars, tsVars, connVars, sessVars, libVars, clock>>

(***************************************************************************)
(* Program constants                                                       *)
(***************************************************************************)
FrameTypeData == 1
FrameTypePadding == 2
FrameTypeTiming == 3
FrameTypeClose == 4
maxFramePayloadSize == 65535
replayWindowSize == 1000
aeadOverhead == 16
handshakeSkew == 300
defaultNonceLifetime == 900
ReflexMagic == 1380341836
reflexMinHandshakeSize == 64
maxPolicyPayloadSize == 4096

(***************************************************************************)
(* Bounds of the model                                                     *)
(***************************************************************************)
MaxWrites == 3     \* WriteFrame calls in one behaviour
MaxReplays == 1    \* wire frames re-submitted to the reader
TsBits == 14       \* width of the integers holding seconds (64 in the program)

\* The two tasks that write on a session: the session loop (handleSession,
\* CLOSE on upstream EOF) and forwardUpstreamToClient.
Tasks == {1, 2}

(***************************************************************************)
(* AEAD, abstracted symbolically: a ciphertext names the key, the nonce    *)
(* and the plaintext it seals, and opens only under that key and nonce.    *)
(* A plaintext is [n: its length in bytes, d: its content].                *)
(***************************************************************************)
SessionKey == "K"

\* the (frameType, data) arguments WriteFrame is called with
WriteArgs ==
    { <<FrameTypeData, [n |-> 9, d |-> 1]>>,
      <<FrameTypeData, [n |-> 65519, d |-> 2]>>,
      <<FrameTypeData, [n |-> 65520, d |-> 3]>>,
      <<FrameTypeClose, [n |-> 0, d |-> 0]>> }

aeadSeal(key, nonce, plaintext) ==
    [key |-> key, nonce |-> nonce, pt |-> plaintext]

\* mutant: the ciphertext opens under the key with any nonce
aeadOpen_AnyNonce(key, nonce, ciphertext) ==
    IF ciphertext.key = key
    THEN [ok |-> TRUE, pt |-> ciphertext.pt]
    ELSE [ok |-> FALSE, pt |-> [n |-> 0, d |-> 0]]

aeadOpen(key, nonce, ciphertext) ==
    IF ciphertext.key = key /\ ciphertext.nonce = nonce
    THEN [ok |-> TRUE, pt |-> ciphertext.pt]
    ELSE [ok |-> FALSE, pt |-> [n |-> 0, d |-> 0]]

ctLen(ciphertext) == ciphertext.pt.n + aeadOverhead

\* sha256.Sum256, collision-free
sha256Sum(ciphertext) == <<"sha256", ciphertext>>

\* uint16(x)
Uint16(x) == x % 65536

(***************************************************************************)
(* Session                                                                 *)
(***************************************************************************)
NewSession(key) ==
    [aead |-> key, readNonce |-> 0, writeNonce |-> 0,
     replaySeen |-> {}, replayOrder |-> <<>>]

\* 12 bytes: 4 zero bytes, then the counter as 8 bytes big endian
makeNonce(counter) == <<0, counter>>

\* mutant: the hash is looked up but never recorded
rememberCiphertext_NoInsert(s, ciphertext) ==
    IF sha256Sum(ciphertext) \in s.replaySeen
    THEN [ok |-> FALSE, s |-> s]
    ELSE [ok |-> TRUE, s |-> s]

\* mutant: at a full window the hash inserted last is dropped, not the oldest
rememberCiphertext_EvictNewest(s, ciphertext) ==
    LET h == sha256Sum(ciphertext)
        n == Len(s.replayOrder)
    IN  IF h \in s.replaySeen
        THEN [ok |-> FALSE, s |-> s]
        ELSE IF n + 1 > replayWindowSize
        THEN [ok |-> TRUE,
              s |-> [s EXCEPT !.replayOrder = Append(SubSeq(@, 1, n - 1), h),
                              !.replaySeen = (@ \ {s.replayOrder[n]}) \cup {h}]]
        ELSE [ok |-> TRUE,
              s |-> [s EXCEPT !.replayOrder = Append(@, h),
                              !.replaySeen = @ \cup {h}]]

rememberCiphertext(s, ciphertext) ==
    LET h == sha256Sum(ciphertext)
        order == Append(s.replayOrder, h)
        seen == s.replaySeen \cup {h}
    IN  IF h \in s.replaySeen
        THEN [ok |-> FALSE, s |-> s]
        ELSE IF Len(order) > replayWindowSize
        THEN [ok |-> TRUE,
              s |-> [s EXCEPT !.replayOrder = Tail(order),
                              !.replaySeen = seen \ {Head(order)}]]
        ELSE [ok |-> TRUE,
              s |-> [s EXCEPT !.replayOrder = order, !.replaySeen = seen]]

NoFrame == [Length |-> 0, Type |-> 0, Payload |-> [n |-> 0, d |-> 0]]

\* mutant: the read counter is not advanced after use
ReadFrame_NoIncrement(s, length, ftype, ciphertext) ==
    LET rem == rememberCiphertext(s, ciphertext)
        res == aeadOpen(s.aead, makeNonce(rem.s.readNonce), ciphertext)
    IN  IF length = 0 \/ length > maxFramePayloadSize
        THEN [s |-> s, err |-> "invalid reflex frame length",
              frame |-> NoFrame, opened |-> -1]
        ELSE IF ~rem.ok
        THEN [s |-> rem.s, err |-> "replay detected", frame |-> NoFrame,
              opened |-> -1]
        ELSE IF ~res.ok
        THEN [s |-> rem.s, err |-> "message authentication failed",
              frame |-> NoFrame, opened |-> rem.s.readNonce]
        ELSE [s |-> rem.s, err |-> "",
              frame |-> [Length |-> length, Type |-> ftype, Payload |-> res.pt],
              opened |-> rem.s.readNonce]

\* ReadFrame on the bytes of one whole frame: header (length, ftype), then
\* `length` bytes of ciphertext.  opened: the counter given to aead.Open, or -1.
ReadFrame(s, length, ftype, ciphertext) ==
    IF length = 0 \/ length > maxFramePayloadSize
    THEN [s |-> s, err |-> "invalid reflex frame length", frame |-> NoFrame,
          opened |-> -1]
    ELSE LET rem == rememberCiphertext(s, ciphertext)
             nonce == makeNonce(rem.s.readNonce)
             s2 == [rem.s EXCEPT !.readNonce = @ + 1]
             res == aeadOpen(s.aead, nonce, ciphertext)
         IN  IF ~rem.ok
             THEN [s |-> rem.s, err |-> "replay detected", frame |-> NoFrame,
                   opened |-> -1]
             ELSE IF ~res.ok
             THEN [s |-> s2, err |-> "message authentication failed",
                   frame |-> NoFrame, opened |-> rem.s.readNonce]
             ELSE [s |-> s2, err |-> "",
                   frame |-> [Length |-> length, Type |-> ftype,
                              Payload |-> res.pt],
                   opened |-> rem.s.readNonce]

\* mutant: the write counter is advanced only for a frame that fits
sealFrame_IncrementOnSuccess(s, data) ==
    LET encrypted == aeadSeal(s.aead, makeNonce(s.writeNonce), data)
        tooLarge == ctLen(encrypted) > maxFramePayloadSize
    IN  [s |-> IF tooLarge THEN s ELSE [s EXCEPT !.writeNonce = @ + 1],
         ctr |-> s.writeNonce,
         encrypted |-> encrypted,
         err |-> IF tooLarge THEN "frame too large" ELSE ""]

\* mutant: the size check looks at the plaintext, not at the ciphertext
sealFrame_PlaintextLimit(s, data) ==
    LET encrypted == aeadSeal(s.aead, makeNonce(s.writeNonce), data)
    IN  [s |-> [s EXCEPT !.writeNonce = @ + 1],
         ctr |-> s.writeNonce,
         encrypted |-> encrypted,
         err |-> IF data.n > maxFramePayloadSize
                 THEN "frame too large" ELSE ""]

\* WriteFrame between taking the lock and the first write: nonce, counter
\* increment, seal, size check.
sealFrame(s, data) ==
    LET nonce == makeNonce(s.writeNonce)
        encrypted == aeadSeal(s.aead, nonce, data)
    IN  [s |-> [s EXCEPT !.writeNonce = @ + 1],
         ctr |-> s.writeNonce,
         encrypted |-> encrypted,
         err |-> IF ctLen(encrypted) > maxFramePayloadSize
                 THEN "frame too large" ELSE ""]

\* mutant: WriteFrame does not take the lock
writeMuFree_NoLock(mu) == TRUE

\* s.writeMu.Lock() can be taken
writeMuFree(mu) == mu = 0

(***************************************************************************)
(* Time.  Seconds are TsBits-wide two's complement integers.  A time.Time  *)
(* is [sec, nsec] with sec counted from year 1 (as time.Time keeps it), so *)
(* time.Unix adds unixToInternal, wrapping at the integer width.           *)
(***************************************************************************)
IntModulus == 2 ^ TsBits
IntMax == 2 ^ (TsBits - 1) - 1

\* int64(x) of an unsigned value
Int64(u) == IF u > IntMax THEN u - IntModulus ELSE u

\* signed addition as the machine does it
wrapInt64(x) == ((x + IntMax + 1) % IntModulus) - (IntMax + 1)

\* seconds from year 1 to 1970 (62135596800 of 2^63 in the program)
unixToInternal == 2 ^ (TsBits - 3)

HalfSecond == 500000000

timeUnix(sec) == [sec |-> wrapInt64(sec + unixToInternal), nsec |-> 0]

\* time.Now() at the wall clock `c`
timeNow(c) == [sec |-> c.sec + unixToInternal, nsec |-> c.nsec]

\* t.Add(d) for a whole number of seconds d
timeAdd(t, d) == [sec |-> wrapInt64(t.sec + d), nsec |-> t.nsec]

timeBefore(t, u) == t.sec < u.sec \/ (t.sec = u.sec /\ t.nsec < u.nsec)

timeAfter(t, u) == t.sec > u.sec \/ (t.sec = u.sec /\ t.nsec > u.nsec)

\* mutant: whole seconds compared, the clock's fraction dropped
validateHandshakeTimestamp_Truncated(ts, now) ==
    IF now.sec - unixToInternal - ts > handshakeSkew
       \/ ts - (now.sec - unixToInternal) > handshakeSkew
    THEN "err" ELSE "ok"

\* validateHandshakeTimestamp(ts) with time.Now() = now
validateHandshakeTimestamp(ts, now) ==
    LET t == timeUnix(ts)
    IN  IF timeBefore(t, timeAdd(now, -handshakeSkew))
           \/ timeAfter(t, timeAdd(now, handshakeSkew))
        THEN "err" ELSE "ok"

(***************************************************************************)
(* SpecFrames: actions                                                     *)
(***************************************************************************)
NoLoc == [ftype |-> 0, data |-> [n |-> 0, d |-> 0], ctr |-> -1]

FrameIdle ==
    /\ wsess = NewSession(SessionKey)
    /\ rsess = NewSession(SessionKey)
    /\ writeMu = 0
    /\ wpc = [t \in Tasks |-> "idle"]
    /\ wloc = [t \in Tasks |-> NoLoc]
    /\ wire = <<>>
    /\ connOK = TRUE
    /\ rpos = 0
    /\ calls = <<>>
    /\ reads = <<>>
    /\ sealLog = <<>>
    /\ openLog = <<>>
    /\ nReplays = 0

TsIdle ==
    /\ tsIn = 0
    /\ tsHS = 0
    /\ tsRes = "none"

ClockIdle == clock = [sec |-> 0, nsec |-> 0]

NStarted == Len(calls) + Cardinality({t \in Tasks : wpc[t] # "idle"})

\* WriteFrame line 136: the call enters and takes the write lock
WriteFrameLock(t, ftype, data) ==
    /\ wpc[t] = "idle"
    /\ NStarted < MaxWrites
    /\ writeMuFree(writeMu)
    /\ writeMu' = t
    /\ wloc' = [wloc EXCEPT ![t] = [ftype |-> ftype, data |-> data, ctr |-> -1]]
    /\ wpc' = [wpc EXCEPT ![t] = "seal"]
    /\ UNCHANGED <<wsess, rsess, wire, connOK, rpos, calls, reads, sealLog,
                   openLog, nReplays, tsVars, connVars, sessVars, clock,
                   libVars>>

\* WriteFrame lines 139-148: seal; "frame too large" returns (and unlocks)
WriteFrameSeal(t) ==
    /\ wpc[t] = "seal"
    /\ LET r == sealFrame(wsess, wloc[t].data)
       IN  /\ wsess' = r.s
           /\ sealLog' = Append(sealLog, r.ctr)
           /\ IF r.err # ""
              THEN /\ wpc' = [wpc EXCEPT ![t] = "idle"]
                   /\ wloc' = [wloc EXCEPT ![t] = NoLoc]
                   /\ writeMu' = IF writeMu = t THEN 0 ELSE writeMu
                   /\ calls' = Append(calls,
                         [ftype |-> wloc[t].ftype, data |-> wloc[t].data,
                          ctr |-> r.ctr, err |-> r.err])
              ELSE /\ wpc' = [wpc EXCEPT ![t] = "hdr"]
                   /\ wloc' = [wloc EXCEPT ![t].ctr = r.ctr]
                   /\ UNCHANGED <<writeMu, calls>>
    /\ UNCHANGED <<rsess, wire, connOK, rpos, reads, openLog, nReplays,
                   tsVars, connVars, sessVars, clock, libVars>>

\* WriteFrame lines 150-152: writer.Write(header)
WriteFrameHeader(t) ==
    /\ wpc[t] = "hdr"
    /\ LET encrypted == aeadSeal(wsess.aead, makeNonce(wloc[t].ctr), wloc[t].data)
       IN  IF connOK
           THEN /\ wire' = Append(wire,
                     [part |-> "hdr", length |-> Uint16(ctLen(encrypted)),
                      ftype |-> wloc[t].ftype, ctr |-> wloc[t].ctr,
                      task |-> t])
                /\ wpc' = [wpc EXCEPT ![t] = "ct"]
                /\ UNCHANGED <<wloc, writeMu, calls>>
           ELSE /\ wpc' = [wpc EXCEPT ![t] = "idle"]
                /\ wloc' = [wloc EXCEPT ![t] = NoLoc]
                /\ writeMu' = IF writeMu = t THEN 0 ELSE writeMu
                /\ calls' = Append(calls,
                      [ftype |-> wloc[t].ftype, data |-> wloc[t].data,
                       ctr |-> wloc[t].ctr, err |-> "write error"])
                /\ UNCHANGED wire
    /\ UNCHANGED <<wsess, rsess, connOK, rpos, reads, sealLog, openLog,
                   nReplays, tsVars, connVars, sessVars, clock, libVars>>

\* WriteFrame lines 153-156: writer.Write(encrypted), return, deferred unlock
WriteFrameCiphertext(t) ==
    /\ wpc[t] = "ct"
    /\ LET encrypted == aeadSeal(wsess.aead, makeNonce(wloc[t].ctr), wloc[t].data)
       IN  /\ wire' = IF connOK
                      THEN Append(wire, [part |-> "ct", ct |-> encrypted,
                                         ftype |-> wloc[t].ftype,
                                         ctr |-> wloc[t].ctr, task |-> t])
                      ELSE wire
           /\ calls' = Append(calls,
                 [ftype |-> wloc[t].ftype, data |-> wloc[t].data,
                  ctr |-> wloc[t].ctr,
                  err |-> IF connOK THEN "" ELSE "write error"])
    /\ wpc' = [wpc EXCEPT ![t] = "idle"]
    /\ wloc' = [wloc EXCEPT ![t] = NoLoc]
    /\ writeMu' = IF writeMu = t THEN 0 ELSE writeMu
    /\ UNCHANGED <<wsess, rsess, connOK, rpos, reads, sealLog, openLog,
                   nReplays, tsVars, connVars, sessVars, clock, libVars>>

\* the connection under the writer fails; every later Write returns an error
ConnBreak ==
    /\ connOK
    /\ connOK' = FALSE
    /\ UNCHANGED <<wsess, rsess, writeMu, wpc, wloc, wire, rpos, calls, reads,
                   sealLog, openLog, nReplays, tsVars, connVars, sessVars, clock,
                   libVars>>

\* a whole frame starts at wire piece i (1-based)
FrameAt(i) ==
    /\ i >= 1
    /\ i + 1 <= Len(wire)
    /\ wire[i].part = "hdr"
    /\ wire[i + 1].part = "ct"

RawAt(i) == [length |-> wire[i].length, ftype |-> wire[i].ftype,
             ct |-> wire[i + 1].ct]

DoRead(kind, raw) ==
    LET r == ReadFrame(rsess, raw.length, raw.ftype, raw.ct)
    IN  /\ rsess' = r.s
        /\ reads' = Append(reads, [kind |-> kind, raw |-> raw, err |-> r.err,
                                   frame |-> r.frame,
                                   rn |-> rsess.readNonce])
        /\ openLog' = IF r.opened >= 0 THEN Append(openLog, r.opened)
                      ELSE openLog

\* the reader calls ReadFrame on the next frame of the stream
ReadFrameNext ==
    /\ FrameAt(rpos + 1)
    /\ DoRead("next", RawAt(rpos + 1))
    /\ rpos' = rpos + 2
    /\ UNCHANGED <<wsess, writeMu, wpc, wloc, wire, connOK, calls, sealLog,
                   nReplays, tsVars, connVars, sessVars, clock, libVars>>

\* the raw bytes of a frame already delivered are submitted to ReadFrame again
ReadFrameReplay(i) ==
    /\ nReplays < MaxReplays
    /\ i + 1 <= rpos
    /\ FrameAt(i)
    /\ DoRead("replay", RawAt(i))
    /\ nReplays' = nReplays + 1
    /\ UNCHANGED <<wsess, writeMu, wpc, wloc, wire, connOK, rpos, calls,
                   sealLog, tsVars, connVars, sessVars, clock, libVars>>

\* no connection has been accepted
NoConns ==
    /\ hfallback = [isNil |-> TRUE, Dest |-> 0]
    /\ seenNonces = <<>>
    /\ nonceMu = 0
    /\ cin = <<>>
    /\ cpc = <<>>
    /\ rdpos = <<>>
    /\ cfill = <<>>
    /\ chs = <<>>
    /\ cout = <<>>
    /\ cret = <<>>
    /\ clog = <<>>
    /\ fbRecv = <<>>
    /\ nTicks = 0

\* no session has been created
NoSession ==
    /\ ssess = <<>>
    /\ profile = <<>>
    /\ mtask = <<>>
    /\ mout = <<>>
    /\ loop = <<>>
    /\ up = <<>>
    /\ client = <<>>

\* no stand-alone reader and no stand-alone function has run
NoUnit ==
    /\ win = <<>>
    /\ pk = <<>>
    /\ hp = <<>>

\* no profile call and no statistics call has been made
NoLib ==
    /\ pheap = <<>>
    /\ sprofile = <<>>
    /\ pmu = <<>>
    /\ ptask = <<>>
    /\ plog = <<>>
    /\ obs = <<>>
    /\ ks = <<>>
    /\ NoUnit

FramesInit ==
    /\ FrameIdle
    /\ TsIdle
    /\ ClockIdle
    /\ NoConns
    /\ NoLib
    /\ NoSession

FramesNext ==
    \/ \E t \in Tasks, a \in WriteArgs : WriteFrameLock(t, a[1], a[2])
    \/ \E t \in Tasks : WriteFrameSeal(t)
    \/ \E t \in Tasks : WriteFrameHeader(t)
    \/ \E t \in Tasks : WriteFrameCiphertext(t)
    \/ ConnBreak
    \/ ReadFrameNext
    \/ \E i \in 1..Len(wire) : ReadFrameReplay(i)

SpecFrames == FramesInit /\ [][FramesNext]_vars

(***************************************************************************)
(* SpecTs: every value of the 8-byte timestamp field, parsed as            *)
(* readBinaryHandshake / parseBinaryHandshake parse it and validated at a  *)
(* clock with and without a fraction of a second.                          *)
(***************************************************************************)
TsClocks ==
    { [sec |-> sc, nsec |-> ns] : sc \in {1000, 1001}, ns \in {0, HalfSecond} }

TsInit ==
    /\ FrameIdle
    /\ NoConns
    /\ NoLib
    /\ NoSession
    /\ tsIn \in 0..(IntModulus - 1)
    /\ tsHS = 0
    /\ tsRes = "none"
    /\ clock \in TsClocks

\* hs.Timestamp = int64(binary.BigEndian.Uint64(head[48:56]))
TsParse ==
    /\ tsRes = "none"
    /\ tsHS' = Int64(tsIn)
    /\ tsRes' = "parsed"
    /\ UNCHANGED <<frameVars, connVars, sessVars, tsIn, clock, libVars>>

\* processHandshake line 193
TsValidate ==
    /\ tsRes = "parsed"
    /\ tsRes' = validateHandshakeTimestamp(tsHS, timeNow(clock))
    /\ UNCHANGED <<frameVars, connVars, sessVars, tsIn, tsHS, clock, libVars>>

TsNext == TsParse \/ TsValidate

SpecTs == TsInit /\ [][TsNext]_vars

\* twice (now - t), in seconds: the clock's fraction is 0 or one half
TwiceSkewOf(c, t) == 2 * (c.sec - t) + (IF c.nsec > 0 THEN 1 ELSE 0)

\* C7: validateHandshakeTimestamp succeeds iff |now - t| <= 5 minutes, for
\* every value of the 64-bit wire field, t being the field read as a signed
\* integer; a value whose top bit is set is never accepted.
C7_TimestampWindow ==
    tsRes \in {"ok", "err"} =>
        /\ tsRes = "ok" <=>
               /\ TwiceSkewOf(clock, tsHS) <= 2 * handshakeSkew
               /\ TwiceSkewOf(clock, tsHS) >= -(2 * handshakeSkew)
        /\ tsIn > IntMax => tsRes = "err"

C7_Witness ==
    /\ tsRes = "ok"
    /\ clock.nsec = 0
    /\ tsHS = clock.sec + handshakeSkew

(***************************************************************************)
(* Claims about the frame codec, checked under SpecFrames                  *)
(***************************************************************************)
AllWritersIdle == \A t \in Tasks : wpc[t] = "idle"
AllWritesSucceeded == \A j \in 1..Len(calls) : calls[j].err = ""
ReadInOrderOnly == \A i \in 1..Len(reads) : reads[i].kind = "next"

\* C2: frame round trip.  When every WriteFrame call succeeded and a fresh
\* reader with the same key reads the wire in order, the i-th ReadFrame
\* returns the i-th call's (type, payload) without error, the read counter
\* is the number of frames read, and once all k frames are read the read
\* counter equals the write counter (k).
C2_RoundTrip ==
    (AllWritesSucceeded /\ ReadInOrderOnly) =>
        /\ Len(reads) <= Len(calls)
        /\ \A i \in 1..Len(reads) :
               /\ reads[i].err = ""
               /\ reads[i].frame.Type = calls[i].ftype
               /\ reads[i].frame.Payload = calls[i].data
        /\ rsess.readNonce = Len(reads)
        /\ (AllWritersIdle /\ Len(reads) = Len(calls)) =>
               /\ wsess.writeNonce = Len(calls)
               /\ rsess.readNonce = wsess.writeNonce

C2_Witness ==
    /\ AllWritesSucceeded
    /\ ReadInOrderOnly
    /\ AllWritersIdle
    /\ Len(calls) = 3
    /\ Len(reads) = 3
    /\ \E i \in 1..3 : reads[i].frame.Payload.n = 65519
    /\ \E i \in 1..3 : reads[i].frame.Type = FrameTypeClose

\* C3: replay.  A frame sealed under the session key with the counter the
\* reader is at is accepted when first submitted in stream order, and the
\* same raw bytes submitted again right after a successful ReadFrame are
\* refused with "replay detected".
C3_ReplayDetected ==
    /\ \A i \in 1..Len(reads) :
           (/\ reads[i].kind = "next"
            /\ reads[i].raw.ct.key = SessionKey
            /\ reads[i].raw.ct.nonce = <<0, reads[i].rn>>) => reads[i].err = ""
    /\ \A i \in 1..(Len(reads) - 1) :
           (reads[i].err = "" /\ reads[i + 1].raw = reads[i].raw)
               => reads[i + 1].err = "replay detected"

C3_Witness ==
    \E i \in 1..(Len(reads) - 1) :
        /\ reads[i].err = ""
        /\ reads[i + 1].raw = reads[i].raw
        /\ reads[i + 1].err = "replay detected"

\* C4: nonce counters.  In a session the write counter and the read counter
\* start at 0 and only grow; the k-th aead.Seal of the session uses counter
\* k-1 and the k-th aead.Open uses counter k-1, so no counter value is used
\* twice, whatever calls failed before.
C4_CountersNeverReused ==
    /\ wsess.writeNonce = Len(sealLog)
    /\ \A i \in 1..Len(sealLog) : sealLog[i] = i - 1
    /\ rsess.readNonce = Len(openLog)
    /\ \A i \in 1..Len(openLog) : openLog[i] = i - 1

C4_Witness ==
    /\ Len(sealLog) = 3
    /\ \E j \in 1..2 : calls[j].err = "frame too large"
    /\ Len(openLog) = 2
    /\ \E i \in 1..Len(reads) : reads[i].err = "replay detected"
    /\ \E i \in 1..Len(reads) : reads[i].err = "message authentication failed"

\* C5: concurrent WriteFrame calls are serialised.  At most one task is
\* between Lock and Unlock; on the wire every ciphertext directly follows
\* its own header, a header is followed by its own ciphertext (only the
\* last piece may be a header cut off by a failed connection), and frames
\* appear in increasing order of their seal counter.
C5_WritesSerialised ==
    /\ Cardinality({t \in Tasks : wpc[t] # "idle"}) <= 1
    /\ \A i \in 1..Len(wire) :
           /\ wire[i].part = "ct" =>
                  /\ i > 1
                  /\ wire[i - 1].part = "hdr"
                  /\ wire[i - 1].ctr = wire[i].ctr
           /\ (wire[i].part = "hdr" /\ i < Len(wire)) =>
                  /\ wire[i + 1].part = "ct"
                  /\ wire[i + 1].ctr = wire[i].ctr
    /\ \A i, j \in 1..Len(wire) :
           (i < j /\ wire[i].part = wire[j].part) => wire[i].ctr < wire[j].ctr

C5_Witness ==
    /\ Len(wire) >= 5
    /\ \E i, j \in 1..Len(wire) : i < j /\ wire[i].task # wire[j].task
    /\ \E t \in Tasks : wpc[t] = "ct"

\* C18: oversize refusal.  A WriteFrame call returns "frame too large"
\* exactly when its plaintext plus the 16-byte tag exceeds 65535 bytes, and
\* then nothing of that call is on the wire; on a writer that accepts every
\* write this is the only error; the length field of every header written
\* is the length of its ciphertext, untruncated.
C18_OversizeRefusal ==
    /\ \A j \in 1..Len(calls) :
           /\ (calls[j].err = "frame too large")
                  <=> (calls[j].data.n + 16 > 65535)
           /\ calls[j].err = "frame too large" =>
                  \A i \in 1..Len(wire) : wire[i].ctr # calls[j].ctr
           /\ (connOK /\ calls[j].err # "") => calls[j].err = "frame too large"
           /\ (calls[j].err = "" /\ calls[j].data.n <= 65519) =>
                  \E i \in 1..Len(wire) :
                      /\ FrameAt(i)
                      /\ wire[i].ctr = calls[j].ctr
                      /\ wire[i].length = calls[j].data.n + 16
    /\ \A i \in 1..Len(wire) :
           /\ wire[i].part = "hdr" => wire[i].length \in 16..65535
           /\ FrameAt(i) => wire[i].length = wire[i + 1].ct.pt.n + 16

C18_Witness ==
    /\ connOK
    /\ \E j \in 1..Len(calls) :
           calls[j].err = "frame too large" /\ calls[j].data.n = 65520
    /\ \E i \in 1..Len(wire) : FrameAt(i) /\ wire[i].length = 65535

(***************************************************************************)
(* Handler: configuration, client streams, detection, handshake            *)
(***************************************************************************)
MaxTicks == 1      \* clock steps in one behaviour of SpecConn

Conns == {1, 2}

\* the server's clock when it starts, in seconds
StartSec == 1000

\* UUID bytes are numbered; uuid.String() gives the canonical text, and a
\* configured id written in upper case is a different string.
uuidString(userID) == <<"canonical", userID>>

\* Handler.clients, as New builds it from the configuration
Clients ==
    << [ID |-> uuidString(1), Policy |-> "youtube"],
       [ID |-> <<"uppercase", 2>>, Policy |-> "zoom"] >>

\* the bytes of "POST " and of the magic, big endian
PostPrefix == <<80, 79, 83, 84, 32>>
MagicBytes == <<82, 70, 88, 76>>

\* binary.BigEndian.Uint32 of 4 bytes
Uint32BE(b) == ((b[1] * 256 + b[2]) * 256 + b[3]) * 256 + b[4]

Min(a, b) == IF a < b THEN a ELSE b
Max(a, b) == IF a > b THEN a ELSE b

(***************************************************************************)
(* A client stream: head holds its first bytes (at most 5), n is the       *)
(* number of bytes the client sends, and fin says what follows them:       *)
(* "eof", "err" (a read error) or "open" (the client waits).  A stream     *)
(* that carries a handshake adds its fields: in the binary framing the     *)
(* 74-byte head follows the 4-byte magic; in the HTTP framing the request  *)
(* head (an HTTP/1.1 request line and headers that do not ask to close the *)
(* connection) takes hdrLen bytes and announces a body of contentLen       *)
(* bytes; what the handler reads of the body, its first 4096 bytes at      *)
(* most, decodes (jsonOK, b64OK) to rawLen bytes, with the magic first     *)
(* when rawMagic.  With reqOK false http.ReadRequest fails after hdrLen    *)
(* bytes, or, when hdrLen is 0, finds no end of line in the stream.  ts is *)
(* the 8-byte timestamp field as an unsigned value.                        *)
(***************************************************************************)
NoFields == [nonce |-> "none", ts |-> 0, pub |-> "none", uid |-> 0, plen |-> 0]

NoHTTP == [reqOK |-> FALSE, hdrLen |-> 0, contentLen |-> 0, jsonOK |-> FALSE,
           b64OK |-> FALSE, rawLen |-> 0, rawMagic |-> FALSE]

Plain(head, n, fin) ==
    [n |-> n, head |-> head, fin |-> fin, f |-> NoFields, http |-> NoHTTP]

Binary(n, fin, f) ==
    [n |-> n, head |-> MagicBytes \o <<1>>, fin |-> fin, f |-> f,
     http |-> NoHTTP]

HTTP(n, fin, http, f) ==
    [n |-> n, head |-> PostPrefix, fin |-> fin, f |-> f, http |-> http]

\* streams that carry no handshake, or not a whole one
OtherStreams ==
    { Plain(<<>>, 0, "eof"),
      Plain(<<82, 70, 88>>, 3, "eof"),
      Plain(MagicBytes, 4, "eof"),
      Plain(MagicBytes \o <<1>>, 50, "err"),
      Plain(<<80, 79, 83, 84>>, 4, "eof"),
      Plain(<<80, 79, 83, 84, 47>>, 200, "eof"),
      Plain(<<71, 69, 84, 32, 47>>, 15, "eof"),
      Plain(<<71, 69, 84, 32, 47>>, 15, "open"),
      Plain(<<71, 69, 84, 32, 47>>, 64, "open"),
      Plain(<<82, 70, 88, 77, 1>>, 100, "eof") }

\* the handshake fields a client sends when the server's clock shows `sec`
Fields(sec) ==
    LET base == [nonce |-> "n1", ts |-> sec, pub |-> "good", uid |-> 1,
                 plen |-> 0]
    IN  { base,
          [base EXCEPT !.nonce = "n2"],
          [base EXCEPT !.pub = "loworder"],
          [base EXCEPT !.uid = 2],
          [base EXCEPT !.uid = 3],
          [base EXCEPT !.ts = sec - handshakeSkew],
          [base EXCEPT !.ts = sec - handshakeSkew - 1],
          [base EXCEPT !.ts = sec + handshakeSkew + 1],
          [base EXCEPT !.ts = IntModulus - 1] }

BinaryStreams(sec) ==
    { Binary(78, "eof", f) : f \in Fields(sec) }
    \cup
    LET base == [nonce |-> "n1", ts |-> sec, pub |-> "good", uid |-> 1,
                 plen |-> 0]
    IN  { Binary(77, "eof", base),
          Binary(120, "eof", base),
          Binary(78, "eof", [base EXCEPT !.plen = 4097]),
          Binary(80, "eof", [base EXCEPT !.plen = 10]),
          Binary(88, "open", [base EXCEPT !.plen = 10]) }

HTTPStreams(sec) ==
    LET base == [nonce |-> "n1", ts |-> sec, pub |-> "good", uid |-> 1,
                 plen |-> 0]
        good == [reqOK |-> TRUE, hdrLen |-> 60, contentLen |-> 114,
                 jsonOK |-> TRUE, b64OK |-> TRUE, rawLen |-> 74,
                 rawMagic |-> FALSE]
    IN  { HTTP(174, "eof", good, base),
          HTTP(174, "eof", good, [base EXCEPT !.ts = sec + handshakeSkew + 1]),
          HTTP(178, "eof", [good EXCEPT !.contentLen = 118, !.rawLen = 78,
                                        !.rawMagic = TRUE], base),
          HTTP(40, "eof", [good EXCEPT !.reqOK = FALSE, !.hdrLen = 40], base),
          HTTP(100, "eof", good, base),
          HTTP(174, "eof", [good EXCEPT !.jsonOK = FALSE], base),
          HTTP(174, "eof", [good EXCEPT !.b64OK = FALSE], base),
          HTTP(170, "eof", [good EXCEPT !.contentLen = 110, !.rawLen = 70],
               base),
          HTTP(9000, "eof", [good EXCEPT !.contentLen = 5000], base),
          HTTP(5060, "eof", [good EXCEPT !.contentLen = 5000,
                                         !.jsonOK = FALSE], base),
          HTTP(4200, "open", [good EXCEPT !.contentLen = 5000], base) }

Streams(sec) == OtherStreams \cup BinaryStreams(sec) \cup HTTPStreams(sec)

\* what a second client sends while the first is being served: a handshake
\* in either framing, with the same nonce or another, or no handshake
RacingStreams(sec) ==
    LET base == [nonce |-> "n1", ts |-> sec, pub |-> "good", uid |-> 1,
                 plen |-> 0]
        good == [reqOK |-> TRUE, hdrLen |-> 60, contentLen |-> 114,
                 jsonOK |-> TRUE, b64OK |-> TRUE, rawLen |-> 74,
                 rawMagic |-> FALSE]
    IN  { Binary(78, "eof", base),
          Binary(78, "eof", [base EXCEPT !.nonce = "n2"]),
          HTTP(174, "eof", good, base),
          Plain(<<71, 69, 84, 32, 47>>, 15, "eof") }

\* the streams a connection may carry
StreamsOf(c, sec) == IF c = 1 THEN Streams(sec) ELSE RacingStreams(sec)

(***************************************************************************)
(* Detection                                                               *)
(***************************************************************************)
\* the buffer of bufio.NewReader(conn), inbound.go line 62
defaultBufSize == 4096

\* How far into the stream the bufio.Reader has read once Peek(n) returned
\* on a fresh reader: Peek fills its buffer with what each conn.Read
\* delivers, from the n bytes it asked for up to a full buffer.  The two
\* ends of that range are kept.
PeekFills(st, n) ==
    IF st.n <= n THEN {st.n} ELSE {n, Min(st.n, defaultBufSize)}

\* the same once the reader has been read up to offset pos, having held the
\* stream up to offset old before: a read that finds the buffer empty
\* refills it with what one conn.Read delivers
ReadFills(st, old, pos) ==
    IF pos <= old THEN {old}
    ELSE {pos, Max(pos, Min(st.n, pos - 1 + defaultBufSize))}

\* peekForDetection(reader, n) over a fresh bufio.Reader (4096-byte buffer)
\* on stream st: the peeked bytes as [len, head], or an error.  A stream
\* that stays open with fewer than n bytes keeps Peek waiting: "blocked".
peekForDetection(st, n) ==
    IF st.n >= n THEN [st |-> "ok", len |-> n, head |-> st.head]
    ELSE IF st.fin = "open" THEN [st |-> "blocked", len |-> 0, head |-> <<>>]
    ELSE IF st.fin = "eof" /\ st.n > 0
    THEN [st |-> "ok", len |-> st.n, head |-> st.head]
    ELSE [st |-> "err", len |-> 0, head |-> <<>>]

\* mutant: the magic is looked for in the first 3 bytes' worth of data
isReflexMagic_ShortCheck(data) ==
    data.len >= 3 /\ SubSeq(data.head, 1, 3) = SubSeq(MagicBytes, 1, 3)

isReflexMagic(data) ==
    data.len >= 4 /\ Uint32BE(SubSeq(data.head, 1, 4)) = ReflexMagic

isHTTPPostLike(data) ==
    data.len >= 5 /\ SubSeq(data.head, 1, 5) = PostPrefix

isReflexHandshake(data) ==
    IF isReflexMagic(data) THEN TRUE ELSE isHTTPPostLike(data)

\* Process lines 63-78: where the connection is routed
ProcessRoute(st) ==
    LET peeked == peekForDetection(st, reflexMinHandshakeSize)
    IN  IF peeked.st = "err" THEN "fallback"
        ELSE IF isReflexHandshake(peeked)
        THEN IF isReflexMagic(peeked) THEN "magic"
             ELSE IF isHTTPPostLike(peeked) THEN "http"
             ELSE "fallback"
        ELSE "fallback"

(***************************************************************************)
(* Handshake parsing                                                       *)
(***************************************************************************)
\* io.ReadFull(reader, buf of k bytes) at offset pos of stream st
ReadFull(st, pos, k) ==
    IF st.n - pos >= k THEN [st |-> "ok", pos |-> pos + k]
    ELSE IF st.fin = "open" THEN [st |-> "blocked", pos |-> st.n]
    ELSE [st |-> "err", pos |-> st.n]

\* the ClientHandshake the 74 + plen bytes decode to
DecodeFields(f) ==
    [PublicKey |-> f.pub, UserID |-> f.uid, Timestamp |-> Int64(f.ts),
     Nonce |-> f.nonce, PolicyLen |-> f.plen]

NoHS == [PublicKey |-> "none", UserID |-> 0, Timestamp |-> 0,
         Nonce |-> "none", PolicyLen |-> 0]

\* readBinaryHandshake(reader) at offset pos
readBinaryHandshake(st, pos) ==
    LET head == ReadFull(st, pos, 74)
        policy == ReadFull(st, head.pos, st.f.plen)
    IN  IF head.st # "ok" THEN [st |-> head.st, pos |-> head.pos, hs |-> NoHS]
        ELSE IF st.f.plen > maxPolicyPayloadSize
        THEN [st |-> "err", pos |-> head.pos, hs |-> NoHS]
        ELSE IF st.f.plen > 0 /\ policy.st # "ok"
        THEN [st |-> policy.st, pos |-> policy.pos, hs |-> NoHS]
        ELSE [st |-> "ok", pos |-> IF st.f.plen > 0 THEN policy.pos ELSE head.pos,
              hs |-> DecodeFields(st.f)]

\* parseBinaryHandshake(raw) for raw of rawLen bytes holding the fields f
parseBinaryHandshake(rawLen, f) ==
    IF rawLen < 74 THEN [st |-> "err", hs |-> NoHS]
    ELSE IF f.plen > maxPolicyPayloadSize THEN [st |-> "err", hs |-> NoHS]
    ELSE IF rawLen # 74 + f.plen THEN [st |-> "err", hs |-> NoHS]
    ELSE [st |-> "ok", hs |-> DecodeFields(f)]

\* http.ReadRequest(reader), line 111: a request that parses takes its
\* head from the reader; one that does not has taken the lines read up to
\* the failure, and a stream without an end of line is read to its end
ReadRequest(st) ==
    LET h == st.http
    IN  IF h.reqOK THEN ReadFull(st, 0, h.hdrLen)
        ELSE IF h.hdrLen = 0
        THEN [st |-> IF st.fin = "open" THEN "blocked" ELSE "err", pos |-> st.n]
        ELSE [st |-> "err", pos |-> Min(st.n, h.hdrLen)]

\* handleReflexHTTP lines 111-141 up to the parsed handshake: http.ReadRequest,
\* the body read through io.LimitReader, json, base64, magic strip, parse
readHTTPHandshake(st) ==
    LET h == st.http
        req == ReadRequest(st)
        bodyWant == Min(h.contentLen, maxPolicyPayloadSize)
        body == ReadFull(st, req.pos, bodyWant)
        raw == IF h.rawLen >= 4 /\ h.rawMagic THEN h.rawLen - 4 ELSE h.rawLen
        parsed == parseBinaryHandshake(raw, st.f)
    IN  IF req.st # "ok" \/ ~h.reqOK
        THEN [st |-> IF req.st = "blocked" THEN "blocked" ELSE "err",
              pos |-> req.pos, hs |-> NoHS]
        ELSE IF st.head # PostPrefix
        THEN [st |-> "err", pos |-> req.pos, hs |-> NoHS]
        ELSE IF body.st # "ok" THEN [st |-> body.st, pos |-> body.pos, hs |-> NoHS]
        ELSE IF ~h.jsonOK THEN [st |-> "err", pos |-> body.pos, hs |-> NoHS]
        ELSE IF ~h.b64OK THEN [st |-> "err", pos |-> body.pos, hs |-> NoHS]
        ELSE [st |-> parsed.st, pos |-> body.pos, hs |-> parsed.hs]

\* The bytes of the announced body that req.Body has not handed out when
\* handleReflexHTTP returns; its deferred req.Body.Close() (line 115) reads
\* them from the reader.  A body that was read to its end, or that ended
\* early, leaves none; a request that did not parse has no body to close.
bodyLeft(st) ==
    LET h == st.http
        req == ReadRequest(st)
        bodyWant == Min(h.contentLen, maxPolicyPayloadSize)
        body == ReadFull(st, req.pos, bodyWant)
    IN  IF req.st # "ok" \/ ~h.reqOK THEN 0
        ELSE IF st.head # PostPrefix THEN h.contentLen
        ELSE IF body.st = "ok" THEN h.contentLen - bodyWant
        ELSE 0

(***************************************************************************)
(* processHandshake helpers                                                *)
(***************************************************************************)
EmptyStore == [x \in {} |-> 0]

\* mutant: entries are swept once older than the skew
cleanupExpiredNonces_AfterSkew(store, now) ==
    [x \in {y \in DOMAIN store : ~(now - store[y] > handshakeSkew)}
        |-> store[x]]

\* mutant: an entry is swept as soon as its age reaches the lifetime
cleanupExpiredNonces_AtLifetime(store, now) ==
    [x \in {y \in DOMAIN store : ~(now - store[y] >= defaultNonceLifetime)}
        |-> store[x]]

\* cleanupExpiredNonces(now): entries older than h.nonceLifetime are deleted
cleanupExpiredNonces(store, now) ==
    [x \in {y \in DOMAIN store : ~(now - store[y] > defaultNonceLifetime)}
        |-> store[x]]

\* checkAndStoreNonce line 365: h.seenNonces[nonce] = now
storeNonce(store, nonce, now) ==
    [x \in DOMAIN store \cup {nonce} |-> IF x = nonce THEN now ELSE store[x]]

\* mutant: checkAndStoreNonce does not take the lock
nonceMuFree_NoLock(mu) == TRUE

\* h.nonceMu.Lock() can be taken
nonceMuFree(mu) == mu = 0

\* deriveSharedKey succeeds: X25519 refuses a low-order peer point
deriveSharedKeyOK(peerPublic) == peerPublic # "loworder"

\* mutant: any well-formed id is taken for the first configured client
authenticateUser_FirstClient(userID) ==
    IF Len(Clients) > 0 THEN 1 ELSE 0

\* authenticateUser: index in Clients of the first account whose ID is the
\* canonical text of userID, or 0 ("reflex user not found")
authenticateUser(userID) ==
    LET hits == {i \in 1..Len(Clients) : Clients[i].ID = uuidString(userID)}
    IN  IF hits = {} THEN 0
        ELSE CHOOSE i \in hits : \A j \in hits : i <= j

\* mutant: only a missing fallback counts as not configured
FallbackConfigured_NilOnly == ~hfallback.isNil

\* handleFallback line 379, negated
FallbackConfigured == ~(hfallback.isNil \/ hfallback.Dest = 0)

\* mutant: every failure of processHandshake answers 403 and falls back
errorReply_AlwaysFallback(kind) == [status |-> "403", fallback |-> TRUE]

\* processHandshake's error branches: the status written to the client and
\* whether handleFallback follows (otherwise the error is returned)
errorReply(kind) ==
    IF kind \in {"timestamp", "nonce", "ecdh", "user"}
    THEN [status |-> "403", fallback |-> TRUE]
    ELSE [status |-> "500", fallback |-> FALSE]

(***************************************************************************)
(* SpecConn: Handler.Process on two concurrent connections                 *)
(***************************************************************************)
NoStream == Plain(<<>>, 0, "eof")

NoLog == [route |-> "none", handlers |-> {}, direct |-> FALSE,
          fail |-> "none", tsOK |-> FALSE, nonceFresh |-> FALSE,
          nonceAt |-> -1, noncePass |-> FALSE, c2tEOF |-> FALSE,
          sessReads |-> 0, c2t |-> "none", t2c |-> "none",
          errCh |-> "none"]

ConnIdle ==
    /\ seenNonces = EmptyStore
    /\ nonceMu = 0
    /\ cin = [c \in Conns |-> NoStream]
    /\ cpc = [c \in Conns |-> "idle"]
    /\ rdpos = [c \in Conns |-> 0]
    /\ cfill = [c \in Conns |-> 0]
    /\ chs = [c \in Conns |-> NoHS]
    /\ cout = [c \in Conns |-> <<>>]
    /\ cret = [c \in Conns |-> "pending"]
    /\ clog = [c \in Conns |-> NoLog]
    /\ fbRecv = [c \in Conns |-> <<>>]
    /\ nTicks = 0

ConnInit ==
    /\ FrameIdle
    /\ TsIdle
    /\ ConnIdle
    /\ NoSession
    /\ NoLib
    /\ hfallback \in { [isNil |-> TRUE, Dest |-> 0], [isNil |-> FALSE, Dest |-> 0],
                       [isNil |-> FALSE, Dest |-> 8080] }
    /\ clock = [sec |-> StartSec, nsec |-> 0]

\* the host accepts a connection and calls Process (line 60)
Accept(c, st) ==
    /\ cpc[c] = "idle"
    /\ cin' = [cin EXCEPT ![c] = st]
    /\ cpc' = [cpc EXCEPT ![c] = "detect"]
    /\ UNCHANGED <<frameVars, tsVars, sessVars, hfallback, seenNonces, nonceMu, rdpos,
                   cfill, chs, cout, cret, clog, fbRecv, nTicks, clock,
                   libVars>>

\* Process lines 62-78: peek and route
Process(c) ==
    /\ cpc[c] = "detect"
    /\ peekForDetection(cin[c], reflexMinHandshakeSize).st # "blocked"
    /\ LET route == ProcessRoute(cin[c])
       IN  /\ cpc' = [cpc EXCEPT ![c] = route]
           /\ clog' = [clog EXCEPT ![c].route = route,
                                   ![c].direct = (route = "fallback")]
    /\ \E fill \in PeekFills(cin[c], reflexMinHandshakeSize) :
           cfill' = [cfill EXCEPT ![c] = fill]
    /\ UNCHANGED <<frameVars, tsVars, sessVars, hfallback, seenNonces, nonceMu, cin,
                   rdpos, chs, cout, cret, fbRecv, nTicks, clock, libVars>>

\* handleReflexMagic lines 94-108
HandleReflexMagic(c) ==
    /\ cpc[c] = "magic"
    /\ LET st == cin[c]
           magic == ReadFull(st, 0, 4)
           r == readBinaryHandshake(st, magic.pos)
           log == [clog[c] EXCEPT !.handlers = @ \cup {"handleReflexMagic"}]
       IN  /\ magic.st # "blocked"
           /\ magic.st = "ok" => r.st # "blocked"
           /\ IF magic.st = "err"
              THEN /\ cpc' = [cpc EXCEPT ![c] = "done"]
                   /\ cret' = [cret EXCEPT ![c] = "unexpected EOF"]
                   /\ rdpos' = [rdpos EXCEPT ![c] = magic.pos]
                   /\ clog' = [clog EXCEPT ![c] = [log EXCEPT !.fail = "readmagic"]]
                   /\ UNCHANGED chs
              ELSE IF Uint32BE(SubSeq(st.head, 1, 4)) # ReflexMagic
              THEN /\ cpc' = [cpc EXCEPT ![c] = "fallback"]
                   /\ rdpos' = [rdpos EXCEPT ![c] = magic.pos]
                   /\ clog' = [clog EXCEPT ![c] = [log EXCEPT !.fail = "malformed"]]
                   /\ UNCHANGED <<chs, cret>>
              ELSE IF r.st = "err"
              THEN /\ cpc' = [cpc EXCEPT ![c] = "fallback"]
                   /\ rdpos' = [rdpos EXCEPT ![c] = r.pos]
                   /\ clog' = [clog EXCEPT ![c] = [log EXCEPT !.fail = "malformed"]]
                   /\ UNCHANGED <<chs, cret>>
              ELSE /\ cpc' = [cpc EXCEPT ![c] = "ts"]
                   /\ rdpos' = [rdpos EXCEPT ![c] = r.pos]
                   /\ chs' = [chs EXCEPT ![c] = r.hs]
                   /\ clog' = [clog EXCEPT ![c] = log]
                   /\ UNCHANGED cret
    /\ \E fill \in ReadFills(cin[c], cfill[c], rdpos'[c]) :
           cfill' = [cfill EXCEPT ![c] = fill]
    /\ UNCHANGED <<frameVars, tsVars, sessVars, hfallback, seenNonces, nonceMu, cin,
                   cout, fbRecv, nTicks, clock, libVars>>

\* handleReflexHTTP lines 110-143
HandleReflexHTTP(c) ==
    /\ cpc[c] = "http"
    /\ LET r == readHTTPHandshake(cin[c])
           log == [clog[c] EXCEPT !.handlers = @ \cup {"handleReflexHTTP"}]
       IN  /\ r.st # "blocked"
           /\ rdpos' = [rdpos EXCEPT ![c] = r.pos]
           /\ IF r.st = "err"
              THEN /\ cpc' = [cpc EXCEPT ![c] = "fallback"]
                   /\ clog' = [clog EXCEPT ![c] = [log EXCEPT !.fail = "malformed"]]
                   /\ UNCHANGED chs
              ELSE /\ cpc' = [cpc EXCEPT ![c] = "ts"]
                   /\ chs' = [chs EXCEPT ![c] = r.hs]
                   /\ clog' = [clog EXCEPT ![c] = log]
    /\ \E fill \in ReadFills(cin[c], cfill[c], rdpos'[c]) :
           cfill' = [cfill EXCEPT ![c] = fill]
    /\ UNCHANGED <<frameVars, tsVars, sessVars, hfallback, seenNonces, nonceMu, cin,
                   cout, cret, fbRecv, nTicks, clock, libVars>>

\* where a connection stands once its handler has stated its return value:
\* handleReflexHTTP has its deferred req.Body.Close() (line 115) to run when
\* bytes of the body are left, and then Process returns
AfterReturn(c) ==
    IF clog[c].route = "http" /\ bodyLeft(cin[c]) > 0 THEN "bodyclose"
    ELSE "done"

\* a failure branch of processHandshake: the reply, then fallback or return
FailHandshake(c, kind, log) ==
    LET reply == errorReply(kind)
    IN  /\ cout' = [cout EXCEPT ![c] = Append(@, reply.status)]
        /\ clog' = [clog EXCEPT ![c] = [log EXCEPT !.fail = kind]]
        /\ IF reply.fallback
           THEN /\ cpc' = [cpc EXCEPT ![c] = "fallback"]
                /\ UNCHANGED cret
           ELSE /\ cpc' = [cpc EXCEPT ![c] = AfterReturn(c)]
                /\ cret' = [cret EXCEPT ![c] = kind]

\* processHandshake lines 193-196
CheckTimestamp(c) ==
    /\ cpc[c] = "ts"
    /\ LET log == [clog[c] EXCEPT
                      !.handlers = @ \cup {"processHandshake"},
                      !.tsOK = /\ TwiceSkewOf(clock, chs[c].Timestamp)
                                     <= 2 * handshakeSkew
                               /\ TwiceSkewOf(clock, chs[c].Timestamp)
                                     >= -(2 * handshakeSkew)]
       IN  IF validateHandshakeTimestamp(chs[c].Timestamp, timeNow(clock)) = "err"
           THEN FailHandshake(c, "timestamp", log)
           ELSE /\ cpc' = [cpc EXCEPT ![c] = "nonce"]
                /\ clog' = [clog EXCEPT ![c] = log]
                /\ UNCHANGED <<cout, cret>>
    /\ UNCHANGED <<frameVars, tsVars, sessVars, hfallback, seenNonces, nonceMu, cin,
                   rdpos, cfill, chs, fbRecv, nTicks, clock, libVars>>

\* checkAndStoreNonce lines 357-364: lock, sweep, look up; a nonce that is
\* found returns false (and unlocks), and processHandshake lines 197-200
CheckNonceLookup(c) ==
    /\ cpc[c] = "nonce"
    /\ nonceMuFree(nonceMu)
    /\ LET now == clock.sec
           swept == cleanupExpiredNonces(seenNonces, now)
           fresh == \A x \in DOMAIN seenNonces :
                        x = chs[c].Nonce =>
                            now - seenNonces[x] > defaultNonceLifetime
           log == [clog[c] EXCEPT !.nonceFresh = fresh, !.nonceAt = now]
       IN  /\ seenNonces' = swept
           /\ IF chs[c].Nonce \in DOMAIN swept
              THEN /\ FailHandshake(c, "nonce", log)
                   /\ UNCHANGED nonceMu
              ELSE /\ nonceMu' = c
                   /\ cpc' = [cpc EXCEPT ![c] = "store"]
                   /\ clog' = [clog EXCEPT ![c] = log]
                   /\ UNCHANGED <<cout, cret>>
    /\ UNCHANGED <<frameVars, tsVars, sessVars, hfallback, cin, rdpos, cfill, chs,
                   fbRecv, nTicks, clock, libVars>>

\* checkAndStoreNonce lines 365-366: store with the time read at line 360,
\* return true, unlock
CheckNonceStore(c) ==
    /\ cpc[c] = "store"
    /\ seenNonces' = storeNonce(seenNonces, chs[c].Nonce, clog[c].nonceAt)
    /\ nonceMu' = IF nonceMu = c THEN 0 ELSE nonceMu
    /\ cpc' = [cpc EXCEPT ![c] = "keys"]
    /\ clog' = [clog EXCEPT ![c].noncePass = TRUE]
    /\ UNCHANGED <<frameVars, tsVars, sessVars, hfallback, cin, rdpos, cfill, chs,
                   cout, cret, fbRecv, nTicks, clock, libVars>>

\* what the environment may make fail in processHandshake lines 202-233
EnvFailures == {"none", "keygen", "hkdf", "grant", "write"}

\* processHandshake lines 202-235: key pair, shared key, session key, user,
\* policy grant, response; then handleSession begins
FinishHandshake(c, envFail) ==
    /\ cpc[c] = "keys"
    /\ LET user == authenticateUser(chs[c].UserID)
           log == clog[c]
       IN  IF envFail = "keygen" THEN FailHandshake(c, "keygen", log)
           ELSE IF ~deriveSharedKeyOK(chs[c].PublicKey)
           THEN FailHandshake(c, "ecdh", log)
           ELSE IF envFail = "hkdf" THEN FailHandshake(c, "hkdf", log)
           ELSE IF user = 0 THEN FailHandshake(c, "user", log)
           ELSE IF envFail = "grant" THEN FailHandshake(c, "grant", log)
           ELSE IF envFail = "write"
           THEN /\ cpc' = [cpc EXCEPT ![c] = AfterReturn(c)]
                /\ cret' = [cret EXCEPT ![c] = "write error"]
                /\ clog' = [clog EXCEPT ![c].fail = "write"]
                /\ UNCHANGED cout
           ELSE /\ cout' = [cout EXCEPT ![c] = Append(@, "200")]
                /\ cpc' = [cpc EXCEPT ![c] = "session"]
                /\ clog' = [clog EXCEPT ![c].handlers = @ \cup {"handleSession"}]
                /\ UNCHANGED cret
    /\ UNCHANGED <<frameVars, tsVars, sessVars, hfallback, seenNonces, nonceMu, cin,
                   rdpos, cfill, chs, fbRecv, nTicks, clock, libVars>>

\* the frames a session accepts before the loop is followed no further
MaxSessionFrames == 1

\* payload lengths the next frame header may announce: none, fewer bytes
\* than an AEAD tag, a tag alone, a payload of 100 bytes
FrameLens == {0, 5, aeadOverhead, 100}

\* the length of a frame that ends where the stream of connection c ends
LastFrameLen(c) == Max(0, Min(cin[c].n - rdpos[c] - 3, maxFramePayloadSize))

\* ReadFrame lines 104-132 on the shared reader, for a header that announces
\* length bytes: the header, the length check, the ciphertext
ReadFrameBytes(st, pos, length) ==
    LET header == ReadFull(st, pos, 3)
        ciphertext == ReadFull(st, header.pos, length)
    IN  IF header.st # "ok"
        THEN [header EXCEPT !.st = IF @ = "err" /\ st.n = pos /\ st.fin = "eof"
                                   THEN "EOF" ELSE @]
        ELSE IF length = 0 \/ length > maxFramePayloadSize
        THEN [st |-> "err", pos |-> header.pos]
        ELSE IF ciphertext.st # "ok"
        THEN [ciphertext EXCEPT
                  !.st = IF @ = "err" /\ st.n = header.pos /\ st.fin = "eof"
                         THEN "EOF" ELSE @]
        ELSE IF length < aeadOverhead
        THEN [st |-> "err", pos |-> ciphertext.pos]
        ELSE ciphertext

\* handleSession lines 247-304, one turn of its loop: ReadFrame on the shared
\* reader, then the frame's case. io.EOF returns nil, any other error is
\* returned; a frame that opened is followed by the next turn ("continue"),
\* by nil (a CLOSE frame, or the upstream's end seen after a DATA frame) or
\* by an error of its case
HandleSession(c, length, outcome) ==
    /\ cpc[c] = "session"
    /\ LET frame == ReadFrameBytes(cin[c], rdpos[c], length)
       IN  /\ frame.st # "blocked"
           /\ frame.st = "EOF" => outcome = "nil"
           /\ frame.st = "err" => outcome = "error"
           /\ outcome = "continue" => clog[c].sessReads < MaxSessionFrames
           /\ rdpos' = [rdpos EXCEPT ![c] = frame.pos]
    /\ \E fill \in ReadFills(cin[c], cfill[c], rdpos'[c]) :
           cfill' = [cfill EXCEPT ![c] = fill]
    /\ clog' = [clog EXCEPT ![c].sessReads = @ + 1]
    /\ IF outcome = "continue"
       THEN UNCHANGED <<cret, cpc>>
       ELSE /\ cret' = [cret EXCEPT ![c] = IF outcome = "nil" THEN ""
                                           ELSE "session error"]
            /\ cpc' = [cpc EXCEPT ![c] = AfterReturn(c)]
    /\ UNCHANGED <<frameVars, tsVars, sessVars, hfallback, seenNonces, nonceMu, cin,
                   chs, cout, fbRecv, nTicks, clock, libVars>>

\* a stream interval, kept only when it holds bytes
Chunk(from, to) == IF from < to THEN << <<from, to>> >> ELSE <<>>

\* handleFallback lines 377-402: the configuration check, the dial, and the
\* start of the two copies
FallbackDial(c, dialOK) ==
    /\ cpc[c] = "fallback"
    /\ LET log == [clog[c] EXCEPT !.handlers = @ \cup {"handleFallback"}]
       IN  IF ~FallbackConfigured
           THEN /\ cret' = [cret EXCEPT ![c] =
                      "reflex handshake not matched and fallback is not configured"]
                /\ cpc' = [cpc EXCEPT ![c] = AfterReturn(c)]
                /\ clog' = [clog EXCEPT ![c] = log]
           ELSE IF ~dialOK
           THEN /\ cret' = [cret EXCEPT ![c] = "dial error"]
                /\ cpc' = [cpc EXCEPT ![c] = AfterReturn(c)]
                /\ clog' = [clog EXCEPT ![c] = log]
           ELSE /\ cpc' = [cpc EXCEPT ![c] = "relay"]
                /\ clog' = [clog EXCEPT ![c] =
                               [log EXCEPT !.c2t = "running", !.t2c = "running"]]
                /\ UNCHANGED cret
    /\ UNCHANGED <<frameVars, tsVars, sessVars, hfallback, seenNonces, nonceMu, cin,
                   rdpos, cfill, chs, cout, fbRecv, nTicks, clock, libVars>>

\* io.Copy(target, wrapped), line 395: bufio.Reader.WriteTo hands the target
\* what the reader holds, then what it reads from the connection
CopyToTarget(c) ==
    /\ cpc[c] = "relay"
    /\ clog[c].c2t = "running"
    /\ rdpos[c] < cin[c].n
    /\ LET to == IF rdpos[c] < cfill[c] THEN cfill[c] ELSE cin[c].n
       IN  /\ fbRecv' = [fbRecv EXCEPT ![c] = @ \o Chunk(rdpos[c], to)]
           /\ rdpos' = [rdpos EXCEPT ![c] = to]
           /\ cfill' = [cfill EXCEPT ![c] = Max(@, to)]
    /\ UNCHANGED <<frameVars, tsVars, sessVars, hfallback, seenNonces, nonceMu, cin,
                   cpc, chs, cout, cret, clog, nTicks, clock, libVars>>

\* the copy to the target ends at the end of the client's stream and sends
\* its result on errCh (line 396)
CopyToTargetEnds(c) ==
    /\ cpc[c] = "relay"
    /\ clog[c].c2t = "running"
    /\ rdpos[c] = cin[c].n
    /\ cin[c].fin # "open"
    /\ clog' = [clog EXCEPT ![c].c2t = cin[c].fin,
                            ![c].c2tEOF = (cin[c].fin = "eof"),
                            ![c].errCh = IF @ = "none" THEN "c2t" ELSE @]
    /\ UNCHANGED <<frameVars, tsVars, sessVars, hfallback, seenNonces, nonceMu, cin,
                   cpc, rdpos, cfill, chs, cout, cret, fbRecv, nTicks, clock,
                   libVars>>

\* io.Copy(wrapped, target), lines 398-400: the target ends its stream, or
\* a read from it or a write to the client fails; the result goes on errCh
CopyToClientEnds(c, res) ==
    /\ cpc[c] = "relay"
    /\ clog[c].t2c = "running"
    /\ clog' = [clog EXCEPT ![c].t2c = res,
                            ![c].errCh = IF @ = "none" THEN "t2c" ELSE @]
    /\ UNCHANGED <<frameVars, tsVars, sessVars, hfallback, seenNonces, nonceMu, cin,
                   cpc, rdpos, cfill, chs, cout, cret, fbRecv, nTicks, clock,
                   libVars>>

\* handleFallback lines 403-407: the first result on errCh is returned (nil
\* for a clean end), and the deferred target.Close() (line 386) ends what
\* the target receives.  The log keeps where both copies stood.
FallbackReturn(c) ==
    /\ cpc[c] = "relay"
    /\ clog[c].errCh # "none"
    /\ cret' = [cret EXCEPT ![c] =
           IF clog[c].errCh = "c2t"
           THEN IF clog[c].c2t = "err" THEN "read error" ELSE ""
           ELSE IF clog[c].t2c = "err" THEN "write error" ELSE ""]
    /\ cpc' = [cpc EXCEPT ![c] = AfterReturn(c)]
    /\ UNCHANGED <<frameVars, tsVars, sessVars, hfallback, seenNonces, nonceMu, cin,
                   rdpos, cfill, chs, cout, clog, fbRecv, nTicks, clock, libVars>>

\* handleReflexHTTP line 115, run as the handler returns: req.Body.Close()
\* reads what is left of the announced body from the reader, to the end of
\* the body or of the stream; then Process returns.  A copy to the target
\* that handleFallback left running reads from the same reader without
\* synchronization, and the reader may then stand anywhere up to the end of
\* the stream.
BodyClose(c) ==
    /\ cpc[c] = "bodyclose"
    /\ LET drained == ReadFull(cin[c], rdpos[c], bodyLeft(cin[c]))
       IN  /\ drained.st # "blocked"
           /\ \E pos \in IF clog[c].c2t = "running"
                          THEN {drained.pos, cin[c].n} ELSE {drained.pos} :
                  rdpos' = [rdpos EXCEPT ![c] = pos]
    /\ \E fill \in ReadFills(cin[c], cfill[c], rdpos'[c]) :
           cfill' = [cfill EXCEPT ![c] = fill]
    /\ cpc' = [cpc EXCEPT ![c] = "done"]
    /\ UNCHANGED <<frameVars, tsVars, sessVars, hfallback, seenNonces, nonceMu, cin,
                   chs, cout, cret, clog, fbRecv, nTicks, clock, libVars>>

ClockSteps == {1, defaultNonceLifetime}

\* the wall clock advances
Tick(d, budget) ==
    /\ nTicks < budget
    /\ nTicks' = nTicks + 1
    /\ clock' = [clock EXCEPT !.sec = @ + d]
    /\ UNCHANGED <<frameVars, tsVars, sessVars, hfallback, seenNonces, nonceMu, cin,
                   cpc, rdpos, cfill, chs, cout, cret, clog, fbRecv, libVars>>

\* whether the dial of the fallback target succeeds: either for the first
\* connection; the second finds the target down
DialsOf(c) == IF c = 1 THEN BOOLEAN ELSE {FALSE}

\* what fails in processHandshake: anything for the first connection, the
\* key pair at most for the second
EnvFailuresOf(c) == IF c = 1 THEN EnvFailures ELSE {"none", "keygen"}

ConnNext ==
    \/ \E c \in Conns :
        /\ cpc[c] = "idle"
        /\ \E st \in StreamsOf(c, StartSec) : Accept(c, st)
    \/ \E c \in Conns : Process(c)
    \/ \E c \in Conns : HandleReflexMagic(c)
    \/ \E c \in Conns : HandleReflexHTTP(c)
    \/ \E c \in Conns : CheckTimestamp(c)
    \/ \E c \in Conns : CheckNonceLookup(c)
    \/ \E c \in Conns : CheckNonceStore(c)
    \/ \E c \in Conns : \E envFail \in EnvFailuresOf(c) :
           FinishHandshake(c, envFail)
    \/ \E c \in Conns, length \in FrameLens,
          outcome \in {"continue", "nil", "error"} :
           HandleSession(c, length, outcome)
    \/ \E c \in Conns, outcome \in {"continue", "nil", "error"} :
           HandleSession(c, LastFrameLen(c), outcome)
    \/ \E c \in Conns : \E dialOK \in DialsOf(c) : FallbackDial(c, dialOK)
    \/ \E c \in Conns : CopyToTarget(c)
    \/ \E c \in Conns : CopyToTargetEnds(c)
    \/ \E c \in Conns, res \in {"eof", "err"} : CopyToClientEnds(c, res)
    \/ \E c \in Conns : FallbackReturn(c)
    \/ \E c \in Conns : BodyClose(c)
    \/ \E d \in ClockSteps : Tick(d, MaxTicks)

SpecConn == ConnInit /\ [][ConnNext]_vars

(***************************************************************************)
(* SpecReplay: one handshake sent to the handler twice, on two             *)
(* connections, while the clock advances by steps up to twice the skew.    *)
(***************************************************************************)
\* the copies of the handshake: its timestamp is the server's clock at the
\* start, or as far from it as the skew allows
ReplayStreams(sec) ==
    LET base == [nonce |-> "n1", ts |-> sec, pub |-> "good", uid |-> 1,
                 plen |-> 0]
    IN  { Binary(78, "eof", base),
          Binary(78, "eof", [base EXCEPT !.ts = sec - handshakeSkew]),
          Binary(78, "eof", [base EXCEPT !.ts = sec + handshakeSkew]) }

ReplaySteps == {1, handshakeSkew, 2 * handshakeSkew}

MaxReplayTicks == 2    \* clock steps in one behaviour of SpecReplay

ReplayNext ==
    \/ \E c \in Conns :
        /\ cpc[c] = "idle"
        /\ \E st \in ReplayStreams(StartSec) : Accept(c, st)
    \/ \E c \in Conns : Process(c)
    \/ \E c \in Conns : HandleReflexMagic(c)
    \/ \E c \in Conns : CheckTimestamp(c)
    \/ \E c \in Conns : CheckNonceLookup(c)
    \/ \E c \in Conns : CheckNonceStore(c)
    \/ \E c \in Conns : FinishHandshake(c, "none")
    \/ \E c \in Conns : HandleSession(c, aeadOverhead, "nil")
    \/ \E c \in Conns, dialOK \in BOOLEAN : FallbackDial(c, dialOK)
    \/ \E c \in Conns : CopyToTargetEnds(c)
    \/ \E c \in Conns : CopyToClientEnds(c, "eof")
    \/ \E c \in Conns : FallbackReturn(c)
    \/ \E d \in ReplaySteps : Tick(d, MaxReplayTicks)

SpecReplay == ConnInit /\ [][ReplayNext]_vars

(***************************************************************************)
(* SpecDetect: clients that send the first bytes of a request and then     *)
(* close, or wait for the server's answer with the connection open.        *)
(* SpecDetectLive adds weak fairness for the handler's own steps: a        *)
(* goroutine that can run does run; nothing obliges a client to connect.   *)
(***************************************************************************)
\* "GET /", "POST " and the magic followed by a 1
DetectHeads == { <<71, 69, 84, 32, 47>>, PostPrefix, MagicBytes \o <<1>> }

\* lengths of what the client sends: the 5 bytes detection looks at, a
\* short request, one byte less than the peek asks for, and all of it
DetectLens == {5, 15, reflexMinHandshakeSize - 1, reflexMinHandshakeSize}

DetectStreams ==
    { Plain(h, n, fin) : h \in DetectHeads, n \in DetectLens,
                         fin \in {"open", "eof"} }

DetectNext ==
    \/ \E c \in Conns :
        /\ cpc[c] = "idle"
        /\ \E st \in DetectStreams : Accept(c, st)
    \/ \E c \in Conns : Process(c)
    \/ \E c \in Conns : HandleReflexMagic(c)
    \/ \E c \in Conns : HandleReflexHTTP(c)
    \/ \E c \in Conns, dialOK \in BOOLEAN : FallbackDial(c, dialOK)
    \/ \E c \in Conns : CopyToTarget(c)
    \/ \E c \in Conns : CopyToTargetEnds(c)
    \/ \E c \in Conns, res \in {"eof", "err"} : CopyToClientEnds(c, res)
    \/ \E c \in Conns : FallbackReturn(c)

SpecDetect == ConnInit /\ [][DetectNext]_vars

SpecDetectLive ==
    /\ ConnInit
    /\ [][DetectNext]_vars
    /\ WF_vars(\E c \in Conns : Process(c))
    /\ WF_vars(\E c \in Conns : HandleReflexMagic(c))
    /\ WF_vars(\E c \in Conns : HandleReflexHTTP(c))
    /\ WF_vars(\E c \in Conns, dialOK \in BOOLEAN : FallbackDial(c, dialOK))
    /\ WF_vars(\E c \in Conns : CopyToTarget(c))
    /\ WF_vars(\E c \in Conns : CopyToTargetEnds(c))
    /\ WF_vars(\E c \in Conns : FallbackReturn(c))

(***************************************************************************)
(* Traffic profiles and morphing.  Weights are in percent, a delay is a    *)
(* time.Duration in nanoseconds; `pick` is rand.Float64(), in percent.     *)
(***************************************************************************)
\* width of time.Duration (64 in the program); a Duration counts nanoseconds
DurBits == 29

Millisecond == 1000000

\* int64 arithmetic on a Duration: the low DurBits bits, two's complement
wrapDuration(x) ==
    ((x + 2 ^ (DurBits - 1)) % (2 ^ DurBits)) - 2 ^ (DurBits - 1)

http2apiSizes ==
    << [Size |-> 200, Weight |-> 20],
       [Size |-> 500, Weight |-> 30],
       [Size |-> 1000, Weight |-> 30],
       [Size |-> 1400, Weight |-> 20] >>

http2apiDelays ==
    << [Delay |-> 5 * Millisecond, Weight |-> 30],
       [Delay |-> 10 * Millisecond, Weight |-> 40],
       [Delay |-> 15 * Millisecond, Weight |-> 30] >>

\* a TrafficProfile value with no override pending
NewProfile(name, sizes, delays) ==
    [isNil |-> FALSE, Name |-> name, PacketSizes |-> sizes, Delays |-> delays,
     nextPacketSize |-> 0, nextDelay |-> 0]

\* var Profiles: the built-in profiles by name
Profiles ==
    ("youtube" :>
        NewProfile("youtube",
            << [Size |-> 1400, Weight |-> 35],
               [Size |-> 1200, Weight |-> 25],
               [Size |-> 1000, Weight |-> 20],
               [Size |-> 800, Weight |-> 10],
               [Size |-> 600, Weight |-> 10] >>,
            << [Delay |-> 8 * Millisecond, Weight |-> 30],
               [Delay |-> 12 * Millisecond, Weight |-> 25],
               [Delay |-> 16 * Millisecond, Weight |-> 20],
               [Delay |-> 20 * Millisecond, Weight |-> 15],
               [Delay |-> 30 * Millisecond, Weight |-> 10] >>))
    @@ ("zoom" :>
        NewProfile("zoom",
            << [Size |-> 500, Weight |-> 30],
               [Size |-> 600, Weight |-> 40],
               [Size |-> 700, Weight |-> 30] >>,
            << [Delay |-> 30 * Millisecond, Weight |-> 40],
               [Delay |-> 40 * Millisecond, Weight |-> 40],
               [Delay |-> 50 * Millisecond, Weight |-> 20] >>))
    @@ ("http2-api" :> NewProfile("http2-api", http2apiSizes, http2apiDelays))
    @@ ("mimic-http2-api" :>
        NewProfile("mimic-http2-api",
            << [Size |-> 200, Weight |-> 20],
               [Size |-> 500, Weight |-> 30],
               [Size |-> 1000, Weight |-> 30],
               [Size |-> 1400, Weight |-> 20] >>,
            << [Delay |-> 5 * Millisecond, Weight |-> 30],
               [Delay |-> 10 * Millisecond, Weight |-> 40],
               [Delay |-> 15 * Millisecond, Weight |-> 30] >>))

\* cloneProfile(p): a new TrafficProfile with p's name and copies of its
\* bucket lists; the overrides are not copied
cloneProfile(p) ==
    NewProfile(p.Name, p.PacketSizes, p.Delays)

NilProfile ==
    [isNil |-> TRUE, Name |-> "", PacketSizes |-> <<>>, Delays |-> <<>>,
     nextPacketSize |-> 0, nextDelay |-> 0]

\* mutant: an unknown policy resolves to no profile
profileFromPolicy_NilOnUnknown(policy) ==
    IF policy \in DOMAIN Profiles THEN cloneProfile(Profiles[policy])
    ELSE NilProfile

profileFromPolicy(policy) ==
    IF policy \in DOMAIN Profiles THEN cloneProfile(Profiles[policy])
    ELSE cloneProfile(Profiles["http2-api"])

\* sum of the weights of values[1..i]
RECURSIVE weightSum(_, _)
weightSum(values, i) ==
    IF i = 0 THEN 0 ELSE weightSum(values, i - 1) + values[i].Weight

\* mutant: a bucket is taken only when the running sum exceeds pick
pickScan_Strict(values, pick, i, sum) ==
    LET first == {j \in i..Len(values) :
                     pick < sum + weightSum(values, j) - weightSum(values, i - 1)}
    IN  IF first = {} THEN Len(values)
        ELSE CHOOSE j \in first : \A k \in first : j <= k

\* lines 118-124: the loop from bucket i on, with the sum of the buckets
\* before it; the index of the bucket it returns
RECURSIVE pickScan(_, _, _, _)
pickScan(values, pick, i, sum) ==
    IF i > Len(values) THEN Len(values)
    ELSE IF pick <= sum + values[i].Weight THEN i
    ELSE pickScan(values, pick, i + 1, sum + values[i].Weight)

\* index of the bucket a weighted pick lands in; 0 for no buckets
weightedPick(values, pick) ==
    IF Len(values) = 0 THEN 0 ELSE pickScan(values, pick, 1, 0)

weightedPickSize(values, pick) ==
    IF weightedPick(values, pick) = 0 THEN 0
    ELSE values[weightedPick(values, pick)].Size

weightedPickDelay(values, pick) ==
    IF weightedPick(values, pick) = 0 THEN 0
    ELSE values[weightedPick(values, pick)].Delay

\* TrafficProfile.GetPacketSize: [v: the size, p: the profile afterwards]
GetPacketSize(p, pick) ==
    IF p.nextPacketSize > 0
    THEN [v |-> p.nextPacketSize, p |-> [p EXCEPT !.nextPacketSize = 0]]
    ELSE [v |-> weightedPickSize(p.PacketSizes, pick), p |-> p]

\* TrafficProfile.GetDelay
GetDelay(p, pick) ==
    IF p.nextDelay > 0
    THEN [v |-> p.nextDelay, p |-> [p EXCEPT !.nextDelay = 0]]
    ELSE [v |-> weightedPickDelay(p.Delays, pick), p |-> p]

SetNextPacketSize(p, size) ==
    IF size <= 0 THEN p ELSE [p EXCEPT !.nextPacketSize = size]

SetNextDelay(p, delay) ==
    IF delay <= 0 THEN p ELSE [p EXCEPT !.nextDelay = delay]

\* Session.HandleControlFrame: [err, p: the profile afterwards].  A payload
\* is [n, d]; d of a control payload is the integer it holds big endian.
HandleControlFrame(p, frame) ==
    IF p.isNil THEN [err |-> "", p |-> p]
    ELSE IF frame.Type = FrameTypePadding
    THEN IF frame.Payload.n # 2
         THEN [err |-> "invalid padding control payload", p |-> p]
         ELSE [err |-> "", p |-> SetNextPacketSize(p, frame.Payload.d)]
    ELSE IF frame.Type = FrameTypeTiming
    THEN IF frame.Payload.n # 8
         THEN [err |-> "invalid timing control payload", p |-> p]
         ELSE [err |-> "",
               p |-> SetNextDelay(p,
                        wrapDuration(wrapDuration(frame.Payload.d) * Millisecond))]
    ELSE [err |-> "", p |-> p]

\* Session.WriteFrame as one step under writeMu, on a writer that accepts
\* writes (writerOK) or fails them: [s, err, out: the frames emitted]
WriteFrame(s, writerOK, ftype, data, task) ==
    LET sealed == sealFrame(s, data)
    IN  IF sealed.err # ""
        THEN [s |-> sealed.s, err |-> sealed.err, out |-> <<>>]
        ELSE IF ~writerOK
        THEN [s |-> sealed.s, err |-> "write error", out |-> <<>>]
        ELSE [s |-> sealed.s, err |-> "",
              out |-> << [length |-> Uint16(ctLen(sealed.encrypted)),
                          ftype |-> ftype, ct |-> sealed.encrypted,
                          task |-> task] >>]

(***************************************************************************)
(* Session.WriteFrameWithMorphing, step by step, for a task t.  A task's   *)
(* state keeps the call's arguments and locals, the frames the call has    *)
(* emitted, and the length of the wire when its sleep began.               *)
(***************************************************************************)
NoCall == [pc |-> "idle", ftype |-> 0, data |-> [n |-> 0, d |-> 0],
           remaining |-> 0, targetSize |-> 0, chunkSize |-> 0, delay |-> 0,
           err |-> "", emitted |-> <<>>, mark |-> 0]

\* the percent values rand.Float64() is drawn from
Picks == {10, 95}

\* data[:chunkSize]: the chunk is cut from the start of data every time
ChunkOf_FromStart(data, remaining, chunkSize) ==
    [n |-> chunkSize, d |-> <<data.d, 0>>]

\* remaining[:chunkSize] of the call's data, as a payload
ChunkOf(data, remaining, chunkSize) ==
    [n |-> chunkSize, d |-> <<data.d, data.n - remaining>>]

\* what the frames in out look like to the call that emitted them
Emitted(out) == [i \in 1..Len(out) |-> [ftype |-> out[i].ftype, pt |-> out[i].ct.pt]]

\* line 160: the call begins; lines 161-163 decide between WriteFrame and
\* the chunk loop
MorphCall(t, ftype, data) ==
    /\ mtask[t].pc = "idle"
    /\ mtask' = [mtask EXCEPT ![t] =
           [NoCall EXCEPT !.pc = IF ftype # FrameTypeData \/ profile.isNil
                                 THEN "plain" ELSE "loop",
                          !.ftype = ftype, !.data = data,
                          !.remaining = data.n]]
    /\ UNCHANGED <<ssess, profile, mout>>

\* line 162: return s.WriteFrame(writer, frameType, data)
MorphPlain(t) ==
    /\ mtask[t].pc = "plain"
    /\ LET w == WriteFrame(ssess, client.connOpen, mtask[t].ftype,
                           mtask[t].data, t)
       IN  /\ ssess' = w.s
           /\ mout' = mout \o w.out
           /\ mtask' = [mtask EXCEPT ![t].pc = "ret", ![t].err = w.err,
                                     ![t].emitted = Emitted(w.out)]
    /\ UNCHANGED profile

\* lines 166-177: the loop test, GetPacketSize under the profile's lock,
\* and the chunk cut from remaining
MorphChunk(t, pick) ==
    /\ mtask[t].pc = "loop"
    /\ IF mtask[t].remaining = 0
       THEN /\ mtask' = [mtask EXCEPT ![t].pc = "ret"]
            /\ UNCHANGED <<ssess, profile, mout>>
       ELSE LET got == GetPacketSize(profile, pick)
                targetSize == IF got.v <= 0 THEN mtask[t].remaining ELSE got.v
                chunkSize == Min(mtask[t].remaining, targetSize)
            IN  /\ profile' = got.p
                /\ mtask' = [mtask EXCEPT
                       ![t].pc = "write",
                       ![t].remaining = @ - chunkSize,
                       ![t].targetSize = targetSize,
                       ![t].chunkSize = chunkSize]
                /\ UNCHANGED <<ssess, mout>>

\* lines 179-181: WriteFrame(writer, FrameTypeData, chunk)
MorphWrite(t) ==
    /\ mtask[t].pc = "write"
    /\ LET chunk == ChunkOf(mtask[t].data,
                            mtask[t].remaining + mtask[t].chunkSize,
                            mtask[t].chunkSize)
           w == WriteFrame(ssess, client.connOpen, FrameTypeData, chunk, t)
       IN  /\ ssess' = w.s
           /\ mout' = mout \o w.out
           /\ mtask' = [mtask EXCEPT
                  ![t].pc = IF w.err # "" THEN "ret" ELSE "padding",
                  ![t].err = w.err,
                  ![t].emitted = @ \o Emitted(w.out)]
    /\ UNCHANGED profile

\* SendPaddingControl(writer, targetSize): [s, err, out]
SendPaddingControl(s, writerOK, targetSize, task) ==
    IF targetSize <= 0 \/ targetSize > 65535
    THEN [s |-> s, err |-> "invalid target size", out |-> <<>>]
    ELSE WriteFrame(s, writerOK, FrameTypePadding,
                    [n |-> 2, d |-> Uint16(targetSize)], task)

\* SendTimingControl(writer, delay): [s, err, out]
SendTimingControl(s, writerOK, delay, task) ==
    IF delay <= 0
    THEN [s |-> s, err |-> "invalid delay", out |-> <<>>]
    ELSE WriteFrame(s, writerOK, FrameTypeTiming,
                    [n |-> 8, d |-> delay \div Millisecond], task)

\* lines 184-186: SendPaddingControl(writer, targetSize)
MorphPadding(t) ==
    /\ mtask[t].pc = "padding"
    /\ LET w == SendPaddingControl(ssess, client.connOpen,
                                   mtask[t].targetSize, t)
       IN  /\ ssess' = w.s
           /\ mout' = mout \o w.out
           /\ mtask' = [mtask EXCEPT
                  ![t].pc = IF w.err # "" THEN "ret" ELSE "delay",
                  ![t].err = w.err,
                  ![t].emitted = @ \o Emitted(w.out)]
    /\ UNCHANGED profile

\* lines 187-188: GetDelay under the profile's lock, and the test of it
MorphDelay(t, pick) ==
    /\ mtask[t].pc = "delay"
    /\ LET got == GetDelay(profile, pick)
       IN  /\ profile' = got.p
           /\ mtask' = [mtask EXCEPT
                  ![t].pc = IF got.v > 0 THEN "timing" ELSE "loop",
                  ![t].delay = IF got.v > 0 THEN got.v ELSE 0]
    /\ UNCHANGED <<ssess, mout>>

\* lines 189-192: SendTimingControl(writer, delay), and time.Sleep begins
MorphTiming(t) ==
    /\ mtask[t].pc = "timing"
    /\ LET w == SendTimingControl(ssess, client.connOpen, mtask[t].delay, t)
       IN  /\ ssess' = w.s
           /\ mout' = mout \o w.out
           /\ mtask' = [mtask EXCEPT
                  ![t].pc = IF w.err # "" THEN "ret" ELSE "sleep",
                  ![t].err = w.err,
                  ![t].emitted = @ \o Emitted(w.out),
                  ![t].mark = Len(mout') ]
    /\ UNCHANGED profile

\* line 192: time.Sleep(delay) returns
MorphWake(t) ==
    /\ mtask[t].pc = "sleep"
    /\ mtask' = [mtask EXCEPT ![t].pc = "loop"]
    /\ UNCHANGED <<ssess, profile, mout>>

\* one step of a WriteFrameWithMorphing call of task t
MorphStep(t) ==
    \/ MorphPlain(t)
    \/ \E pick \in Picks : MorphChunk(t, pick)
    \/ MorphWrite(t)
    \/ MorphPadding(t)
    \/ \E pick \in Picks : MorphDelay(t, pick)
    \/ MorphTiming(t)
    \/ MorphWake(t)

(***************************************************************************)
(* SpecSess: handleSession on one connection, with its forwarder task.     *)
(* Task 1 is the session loop, task 2 is forwardUpstreamToClient.  The     *)
(* client seals its frames with the session key and its own counter.  A    *)
(* payload is [n, d] with d its bytes; what the client sends next is     *)
(* an item: hdr and body are the bytes of the 3-byte header and of the     *)
(* ciphertext that arrive before fin ("more": the whole frame arrived).    *)
(***************************************************************************)
\* items the client sends and buffers the upstream delivers, together, in
\* one behaviour
MaxFrames == 3

Bytes(b) == [n |-> Len(b), d |-> b]

\* binary.BigEndian.Uint16 / Uint64 of the bytes b
RECURSIVE BigEndian(_)
BigEndian(b) ==
    IF b = <<>> THEN 0
    ELSE BigEndian(SubSeq(b, 1, Len(b) - 1)) * 256 + b[Len(b)]

\* the frame as HandleControlFrame reads it: the payload's bytes decoded
ControlFrameOf(f) == [f EXCEPT !.Payload.d = BigEndian(@)]

\* DATA payloads: a destination "a":80 and 2 more bytes; only the
\* destination; too short; address length beyond the payload; empty
DataPayloads ==
    { <<1, 97, 0, 80, 7, 8>>, <<1, 97, 0, 80>>, <<9, 9>>, <<5, 97, 0, 80>>,
      <<>> }

ClientFrames ==
    { <<FrameTypeData, Bytes(b)>> : b \in DataPayloads }
    \cup { <<FrameTypePadding, Bytes(<<0, 200>>)>>,
           <<FrameTypePadding, Bytes(<<0>>)>>,
           <<FrameTypeTiming, Bytes(<<0, 0, 0, 0, 0, 0, 0, 7>>)>>,
           <<FrameTypeClose, Bytes(<<>>)>>,
           <<9, Bytes(<<>>)>> }

Item(hdr, length, ftype, ct, body, fin) ==
    [hdr |-> hdr, length |-> length, ftype |-> ftype, ct |-> ct,
     body |-> body, fin |-> fin]

\* what the client may send as its (sent + 1)-th item
ClientItems(sent) ==
    LET seal(pt) == aeadSeal(SessionKey, makeNonce(sent), pt)
        some == seal(Bytes(<<7, 8>>))
    IN  { Item(3, ctLen(seal(f[2])), f[1], seal(f[2]), ctLen(seal(f[2])), "more")
            : f \in ClientFrames }
        \cup
        { Item(3, ctLen(some), FrameTypeData,
               aeadSeal(SessionKey, makeNonce(sent + 1), Bytes(<<7, 8>>)),
               ctLen(some), "more"),
          Item(3, 0, FrameTypeData, some, 0, "more"),
          Item(0, 0, 0, some, 0, "eof"),
          Item(2, 0, 0, some, 0, "eof"),
          Item(3, ctLen(some), FrameTypeData, some, 0, "eof"),
          Item(3, ctLen(some), FrameTypeData, some, 5, "eof"),
          Item(1, 0, 0, some, 0, "err") }

\* the error of io.ReadFull for k bytes when avail bytes arrive before fin
readFullErr(avail, k, fin) ==
    IF avail >= k THEN ""
    ELSE IF fin = "eof" THEN (IF avail = 0 THEN "EOF" ELSE "unexpected EOF")
    ELSE "read error"

\* Session.ReadFrame(reader) on an item: [s, err, frame, opened]
ReadFrameFrom(s, item) ==
    LET herr == readFullErr(item.hdr, 3, item.fin)
        berr == readFullErr(item.body, item.length, item.fin)
        none == [s |-> s, err |-> "", frame |-> NoFrame, opened |-> -1]
    IN  IF herr # "" THEN [none EXCEPT !.err = herr]
        ELSE IF item.length = 0 \/ item.length > maxFramePayloadSize
        THEN [none EXCEPT !.err = "invalid reflex frame length"]
        ELSE IF berr # "" THEN [none EXCEPT !.err = berr]
        ELSE ReadFrame(s, item.length, item.ftype, item.ct)

\* mutant: the bytes after the address, port included, are the remainder
parseDestination_KeepPort(b) ==
    IF Len(b) < 3
    THEN [err |-> "data frame too short", dest |-> <<>>, rest |-> <<>>]
    ELSE IF Len(b) < 1 + b[1] + 2
    THEN [err |-> "data frame missing destination", dest |-> <<>>, rest |-> <<>>]
    ELSE [err |-> "",
          dest |-> <<"tcp", SubSeq(b, 2, 1 + b[1]), b[2 + b[1]] * 256 + b[3 + b[1]]>>,
          rest |-> SubSeq(b, 2 + b[1], Len(b))]

\* mutant: a payload of 3 bytes or more always yields a destination
parseDestination_ShortAddr(b) ==
    IF Len(b) < 3
    THEN [err |-> "data frame too short", dest |-> <<>>, rest |-> <<>>]
    ELSE IF Len(b) < 1 + b[1] + 2
    THEN [err |-> "", dest |-> <<"tcp", <<>>, 0>>, rest |-> <<>>]
    ELSE [err |-> "",
          dest |-> <<"tcp", SubSeq(b, 2, 1 + b[1]), b[2 + b[1]] * 256 + b[3 + b[1]]>>,
          rest |-> SubSeq(b, 4 + b[1], Len(b))]

\* parseDestination(data): addr_len, addr, port big endian, remainder
parseDestination(b) ==
    IF Len(b) < 3
    THEN [err |-> "data frame too short", dest |-> <<>>, rest |-> <<>>]
    ELSE IF Len(b) < 1 + b[1] + 2
    THEN [err |-> "data frame missing destination", dest |-> <<>>, rest |-> <<>>]
    ELSE [err |-> "",
          dest |-> <<"tcp", SubSeq(b, 2, 1 + b[1]), b[2 + b[1]] * 256 + b[3 + b[1]]>>,
          rest |-> SubSeq(b, 4 + b[1], Len(b))]

\* writeUpstream(link, payload): what the link's writer has received
\* afterwards; an empty payload is not written
writeUpstream(out, payload) ==
    IF Len(payload) = 0 THEN out ELSE Append(out, payload)

\* mutant: a CLOSE frame ends the loop and leaves the link's writer open
onCloseFrame_LeaveOpen(lp) ==
    [lp EXCEPT !.pc = "done", !.ret = ""]

\* handleSession lines 286-290: the CLOSE case
onCloseFrame(lp) ==
    [lp EXCEPT !.pc = "done", !.ret = "",
               !.writerClosed = IF lp.link THEN TRUE ELSE @]

NoItem == Item(0, 0, 0, aeadSeal(SessionKey, makeNonce(0), Bytes(<<>>)), 0, "more")

\* the policy of the authenticated user
SessPolicies == {"zoom"}

\* the sizes of the buffers the upstream delivers
BufferSizes == {900}

SessInit ==
    /\ FrameIdle
    /\ TsIdle
    /\ ClockIdle
    /\ NoConns
    /\ NoLib
    /\ ssess = NewSession(SessionKey)
    /\ \E policy \in SessPolicies : profile = profileFromPolicy(policy)
    /\ mtask = [t \in Tasks |-> NoCall]
    /\ mout = <<>>
    /\ loop = [pc |-> "read", link |-> FALSE, writerClosed |-> FALSE,
               dest |-> <<>>, dispatched |-> 0, ret |-> "pending",
               frames |-> <<>>, last |-> NoItem]
    /\ up = [out |-> <<>>, errCh |-> <<>>, fpc |-> "none", nbuf |-> 0,
             ended |-> "no"]
    /\ client = [sent |-> 0, connOpen |-> TRUE]

\* the frame the loop is handling: the last one ReadFrame returned
CurrentFrame == loop.frames[Len(loop.frames)]

\* handleSession lines 247-262 and 276-292: ReadFrame returns for the
\* client's next item and the loop takes the frame's case, up to its next
\* ReadFrame, its call of Dispatch or of writeUpstream, or its return
SessRead(item) ==
    /\ loop.pc = "read"
    /\ client.sent + up.nbuf < MaxFrames
    /\ client' = [client EXCEPT !.sent = @ + 1]
    /\ LET r == ReadFrameFrom(ssess, item)
           f == r.frame
           lp == [loop EXCEPT !.last = item,
                              !.frames = IF r.err = "" THEN Append(@, f) ELSE @]
           parsed == parseDestination(f.Payload.d)
           ctl == HandleControlFrame(profile, ControlFrameOf(f))
           return(e) == [lp EXCEPT !.pc = "done", !.ret = e]
       IN  /\ ssess' = r.s
           /\ IF r.err # ""
              THEN /\ loop' = return(IF r.err = "EOF" THEN "" ELSE r.err)
                   /\ UNCHANGED profile
              ELSE IF f.Type = FrameTypeData
              THEN /\ loop' = IF loop.link THEN [lp EXCEPT !.pc = "write"]
                              ELSE IF parsed.err # "" THEN return(parsed.err)
                              ELSE [lp EXCEPT !.pc = "dispatch"]
                   /\ UNCHANGED profile
              ELSE IF f.Type \in {FrameTypePadding, FrameTypeTiming}
              THEN /\ profile' = ctl.p
                   /\ loop' = IF ctl.err # "" THEN return(ctl.err) ELSE lp
              ELSE IF f.Type = FrameTypeClose
              THEN /\ loop' = onCloseFrame(lp)
                   /\ UNCHANGED profile
              ELSE /\ loop' = return("unknown frame type")
                   /\ UNCHANGED profile
    /\ UNCHANGED <<frameVars, tsVars, connVars, mtask, mout, up, clock, libVars>>

\* handleSession lines 263-266: dispatcher.Dispatch(ctx, dest) returns the
\* link or an error
SessDispatch(dispatchOK) ==
    /\ loop.pc = "dispatch"
    /\ loop' = [loop EXCEPT
                   !.dispatched = @ + 1,
                   !.dest = parseDestination(CurrentFrame.Payload.d).dest,
                   !.link = dispatchOK,
                   !.pc = IF dispatchOK THEN "go" ELSE "done",
                   !.ret = IF dispatchOK THEN @ ELSE "dispatch error"]
    /\ UNCHANGED <<frameVars, tsVars, connVars, ssess, profile, mtask, mout, up,
                   client, clock, libVars>>

\* handleSession line 267: go forwardUpstreamToClient(...)
SessGo ==
    /\ loop.pc = "go"
    /\ loop' = [loop EXCEPT !.pc = "write1"]
    /\ up' = [up EXCEPT !.fpc = "read"]
    /\ UNCHANGED <<frameVars, tsVars, connVars, ssess, profile, mtask, mout,
                   client, clock, libVars>>

\* handleSession lines 268-275: writeUpstream returns, for the remainder of
\* the first DATA payload (then `continue`) or for a later DATA payload (then
\* the select).  writeOK says whether the write on the link's writer
\* succeeds.
SessWrite(writeOK) ==
    /\ loop.pc \in {"write1", "write"}
    /\ LET payload == IF loop.pc = "write1"
                      THEN parseDestination(CurrentFrame.Payload.d).rest
                      ELSE CurrentFrame.Payload.d
       IN  IF writeOK \/ Len(payload) = 0
           THEN /\ up' = [up EXCEPT !.out = writeUpstream(@, payload)]
                /\ loop' = [loop EXCEPT !.pc = IF @ = "write1" THEN "read"
                                               ELSE "select"]
           ELSE /\ loop' = [loop EXCEPT !.pc = "done",
                                        !.ret = "upstream write error"]
                /\ UNCHANGED up
    /\ UNCHANGED <<frameVars, tsVars, connVars, ssess, profile, mtask, mout,
                   client, clock, libVars>>

\* handleSession lines 294-303: the non-blocking receive on upstreamErr
SessSelect ==
    /\ loop.pc = "select"
    /\ IF up.errCh = <<>>
       THEN /\ loop' = [loop EXCEPT !.pc = "read"]
            /\ UNCHANGED <<ssess, mout, up>>
       ELSE LET upErr == up.errCh[1]
                w == WriteFrame(ssess, client.connOpen, FrameTypeClose,
                                Bytes(<<>>), 1)
            IN  /\ up' = [up EXCEPT !.errCh = <<>>]
                /\ IF upErr = "EOF"
                   THEN /\ ssess' = w.s
                        /\ mout' = mout \o w.out
                        /\ loop' = [loop EXCEPT !.pc = "done", !.ret = ""]
                   ELSE /\ loop' = [loop EXCEPT !.pc = "done", !.ret = upErr]
                        /\ UNCHANGED <<ssess, mout>>
    /\ UNCHANGED <<frameVars, tsVars, connVars, profile, mtask, client, clock,
                   libVars>>

\* Process line 61, deferred: the connection is closed once handleSession
\* has returned
SessConnClose ==
    /\ loop.pc = "done"
    /\ client.connOpen
    /\ client' = [client EXCEPT !.connOpen = FALSE]
    /\ UNCHANGED <<frameVars, tsVars, connVars, ssess, profile, mtask, mout,
                   loop, up, clock, libVars>>

\* forwardUpstreamToClient lines 221-225: ReadMultiBuffer returns a buffer
\* of n bytes, io.EOF, or another error
FwdRead(kind, n) ==
    /\ up.fpc = "read"
    /\ IF kind = "data"
       THEN /\ client.sent + up.nbuf < MaxFrames
            /\ up' = [up EXCEPT !.fpc = "write", !.nbuf = @ + 1]
            /\ mtask' = [mtask EXCEPT ![2] =
                   [NoCall EXCEPT !.pc = IF profile.isNil THEN "plain" ELSE "loop",
                                  !.ftype = FrameTypeData,
                                  !.data = [n |-> n, d |-> up.nbuf + 1],
                                  !.remaining = n]]
       ELSE /\ up' = [up EXCEPT !.fpc = "done", !.errCh = Append(@, kind),
                                !.ended = kind]
            /\ UNCHANGED mtask
    /\ UNCHANGED <<frameVars, tsVars, connVars, ssess, profile, mout, loop,
                   client, clock, libVars>>

\* forwardUpstreamToClient line 227: the WriteFrameWithMorphing call runs
FwdWrite ==
    /\ up.fpc = "write"
    /\ MorphStep(2)
    /\ UNCHANGED <<frameVars, tsVars, connVars, loop, up, client, clock, libVars>>

\* forwardUpstreamToClient lines 227-233: the call has returned
FwdReturn ==
    /\ up.fpc = "write"
    /\ mtask[2].pc = "ret"
    /\ mtask' = [mtask EXCEPT ![2].pc = "idle"]
    /\ up' = IF mtask[2].err # ""
             THEN [up EXCEPT !.fpc = "done", !.errCh = Append(@, mtask[2].err),
                             !.ended = mtask[2].err]
             ELSE [up EXCEPT !.fpc = "read"]
    /\ UNCHANGED <<frameVars, tsVars, connVars, ssess, profile, mout, loop,
                   client, clock, libVars>>

SessNext ==
    \/ \E item \in ClientItems(client.sent) : SessRead(item)
    \/ \E dispatchOK \in BOOLEAN : SessDispatch(dispatchOK)
    \/ SessGo
    \/ \E writeOK \in BOOLEAN : SessWrite(writeOK)
    \/ SessSelect
    \/ SessConnClose
    \/ \E kind \in {"data", "EOF", "upstream error"}, n \in BufferSizes :
           FwdRead(kind, n)
    \/ FwdWrite
    \/ FwdReturn

SpecSess == SessInit /\ [][SessNext]_vars

\* SpecSess with the scheduling the Go runtime gives the server's own steps:
\* a runnable goroutine step is eventually taken, and Dispatch and the write
\* on the link's writer return.  What the client sends and what the upstream
\* delivers are not the server's to schedule.
SpecSessLive ==
    /\ SessInit
    /\ [][SessNext]_vars
    /\ WF_vars(\E dispatchOK \in BOOLEAN : SessDispatch(dispatchOK))
    /\ WF_vars(SessGo)
    /\ WF_vars(\E writeOK \in BOOLEAN : SessWrite(writeOK))
    /\ WF_vars(SessSelect)
    /\ WF_vars(SessConnClose)
    /\ WF_vars(FwdWrite)
    /\ WF_vars(FwdReturn)

(***************************************************************************)
(* SpecMorph: one WriteFrameWithMorphing call of task 1 on a session whose *)
(* profile samples a constant size and a constant delay (or is nil, or has *)
(* no size buckets), while task 2 calls WriteFrame on the same session.    *)
(***************************************************************************)
MaxChunks == 3     \* chunks of one WriteFrameWithMorphing call

\* the sizes and delays the profiles sample; 0 stands for no bucket
MorphSizes == {0, 3, 65535, 70000}
MorphDelays == {0, 5 * Millisecond}

\* a profile as CreateProfileFromObservations builds it from one size and
\* one delay
ConstProfile(size, delay) ==
    [isNil |-> FALSE, Name |-> "p",
     PacketSizes |-> IF size > 0 THEN << [Size |-> size, Weight |-> 100] >>
                     ELSE <<>>,
     Delays |-> IF delay > 0 THEN << [Delay |-> delay, Weight |-> 100] >>
                ELSE <<>>,
     nextPacketSize |-> 0, nextDelay |-> 0]

MorphProfiles ==
    {NilProfile} \cup {ConstProfile(s, d) : s \in MorphSizes, d \in MorphDelays}

\* the (frameType, data) arguments of the call
MorphArgs ==
    { <<FrameTypeData, [n |-> 0, d |-> 1]>>,
      <<FrameTypeData, [n |-> 3, d |-> 2]>>,
      <<FrameTypeData, [n |-> 7, d |-> 3]>>,
      <<FrameTypeData, [n |-> 65530, d |-> 4]>>,
      <<FrameTypeClose, [n |-> 0, d |-> 0]>> }

\* the size every GetPacketSize of profile p returns when it is one
\* constant, else 0
ConstTarget(p) ==
    IF ~p.isNil /\ Len(p.PacketSizes) = 1 /\ p.nextPacketSize = 0
    THEN p.PacketSizes[1].Size ELSE 0

ConstDelay(p) ==
    IF ~p.isNil /\ Len(p.Delays) = 1 /\ p.nextDelay = 0
    THEN p.Delays[1].Delay ELSE 0

\* ceil(n / target)
CeilDiv(n, target) == (n + target - 1) \div target

MorphInit ==
    /\ FrameIdle
    /\ TsIdle
    /\ ClockIdle
    /\ NoConns
    /\ NoLib
    /\ ssess = NewSession(SessionKey)
    /\ profile \in MorphProfiles
    /\ mtask = [t \in Tasks |-> NoCall]
    /\ mout = <<>>
    /\ loop = <<>>
    /\ up = <<>>
    /\ client = [sent |-> 0, connOpen |-> TRUE]

\* task 1 calls WriteFrameWithMorphing(conn, ftype, data)
MorphStart(ftype, data) ==
    /\ ConstTarget(profile) > 0 => CeilDiv(data.n, ConstTarget(profile)) <= MaxChunks
    /\ MorphCall(1, ftype, data)
    /\ UNCHANGED <<frameVars, tsVars, connVars, loop, up, client, clock, libVars>>

\* the call of task 1 takes its next step
MorphRun ==
    /\ MorphStep(1)
    /\ UNCHANGED <<frameVars, tsVars, connVars, loop, up, client, clock, libVars>>

\* task 2 calls WriteFrame(conn, ftype, data) on the same session, once
ForeignWrite(ftype, data) ==
    /\ mtask[2].pc = "idle"
    /\ LET w == WriteFrame(ssess, client.connOpen, ftype, data, 2)
       IN  /\ ssess' = w.s
           /\ mout' = mout \o w.out
           /\ mtask' = [mtask EXCEPT ![2] =
                  [NoCall EXCEPT !.pc = "ret", !.ftype = ftype, !.data = data,
                                 !.err = w.err, !.emitted = Emitted(w.out)]]
    /\ UNCHANGED <<frameVars, tsVars, connVars, profile, loop, up, client,
                   clock, libVars>>

\* the connection fails; every later Write returns an error
MorphConnBreak ==
    /\ client.connOpen
    /\ client' = [client EXCEPT !.connOpen = FALSE]
    /\ UNCHANGED <<frameVars, tsVars, connVars, ssess, profile, mtask, mout,
                   loop, up, clock, libVars>>

MorphNext ==
    \/ \E a \in MorphArgs : MorphStart(a[1], a[2])
    \/ MorphRun
    \/ ForeignWrite(FrameTypeClose, [n |-> 0, d |-> 0])
    \/ MorphConnBreak

SpecMorph == MorphInit /\ [][MorphNext]_vars

(***************************************************************************)
(* SpecProf: sessions take their profile from a policy, and tasks call     *)
(* GetPacketSize, GetDelay, SetNextPacketSize, SetNextDelay and            *)
(* HandleControlFrame on the sessions' profiles, step by step under the    *)
(* profile's mutex.  A TrafficProfile is an object at an address: the      *)
(* templates of Profiles live at their names, a session's at the session.  *)
(***************************************************************************)
MaxCalls == 3      \* calls on profiles in one behaviour

ProfSessions == {"s1", "s2"}

Policies == {"http2-api", "mimic-http2-api", "youtube", "zoom", "", "netflix"}

\* the policies of the two sessions that race
ProfPolicies == {"zoom"}

\* rand.Float64() in the calls that race, in percent
ProfPicks == {10}

\* the arguments of SetNextPacketSize and SetNextDelay
SizeArgs == {77, -1}
DelayArgs == {9 * Millisecond, 0}

\* the control frames handed to HandleControlFrame: [Type, Payload]
ControlFrames ==
    { [Type |-> FrameTypePadding, Payload |-> [n |-> 2, d |-> 300]],
      [Type |-> FrameTypePadding, Payload |-> [n |-> 2, d |-> 0]],
      [Type |-> FrameTypePadding, Payload |-> [n |-> 1, d |-> 3]],
      [Type |-> FrameTypeTiming, Payload |-> [n |-> 8, d |-> 7]],
      [Type |-> FrameTypeTiming, Payload |-> [n |-> 8, d |-> 0]],
      [Type |-> FrameTypeTiming, Payload |-> [n |-> 8, d |-> 540]],
      [Type |-> FrameTypeTiming, Payload |-> [n |-> 2, d |-> 7]],
      [Type |-> FrameTypeData, Payload |-> [n |-> 8, d |-> 7]] }

\* the TrafficProfile a caller builds by hand (morphing_test.go lines 50-54)
\* and the address it lives at
TestProfile ==
    NewProfile("test", << [Size |-> 5, Weight |-> 100] >>,
               << [Delay |-> 0, Weight |-> 100] >>)

TestAddr == "test"

\* the addresses of the heap: the templates, one clone per session, the
\* hand-built profile
ProfAddrs == DOMAIN Profiles \cup ProfSessions \cup {TestAddr}

\* the pointers a caller of its own hands to SetTrafficProfile: nil, the
\* shared template of a built-in profile, a hand-built profile
OwnPointers == {"nil", "zoom", TestAddr}

NoPCall == [pc |-> "idle", op |-> "", kind |-> "", mode |-> "", sess |-> "",
            obj |-> "nil", arg |-> 0, pick |-> 0, local |-> 0]

\* NewSession has not returned the session yet (handleSession line 238):
\* nothing was called on it
Unborn(sess) ==
    /\ \A i \in 1..Len(plog) : plog[i].sess # sess
    /\ \A t \in Tasks : ptask[t].sess # sess

\* mutant: the session is handed the template itself
cloneAddr_Template(sess, name) == name

\* the address of the object cloneProfile returns for a session: a new one
cloneAddr(sess, name) == sess

\* mutant: p.mu.Lock() never waits
pmuFree_NoLock(mu) == TRUE

\* p.mu.Lock() can be taken
pmuFree(mu) == mu = 0

ProfInit ==
    /\ FrameIdle
    /\ TsIdle
    /\ ClockIdle
    /\ NoConns
    /\ NoSession
    /\ pheap = [a \in ProfAddrs |->
                   IF a \in DOMAIN Profiles THEN Profiles[a]
                   ELSE IF a = TestAddr THEN TestProfile
                   ELSE NilProfile]
    /\ sprofile = [s \in ProfSessions |-> "nil"]
    /\ pmu = [a \in ProfAddrs |-> 0]
    /\ ptask = [t \in Tasks |-> NoPCall]
    /\ plog = <<>>
    /\ obs = <<>>
    /\ ks = <<>>
    /\ NoUnit

\* calls that have begun
NPCalls ==
    Cardinality({i \in 1..Len(plog) : plog[i].op # "profileFromPolicy"})
        + Cardinality({t \in Tasks : ptask[t].pc # "idle"})

\* a nil pointer dereference was raised: the runtime ends the program, and
\* no goroutine takes another step
Crashed == plog # <<>> /\ plog[Len(plog)].op = "panic"

LogCall(t, ret) ==
    Append(plog, [op |-> ptask[t].op, sess |-> ptask[t].sess,
                  obj |-> ptask[t].obj,
                  kind |-> ptask[t].kind, mode |-> ptask[t].mode,
                  arg |-> ptask[t].arg, pick |-> ptask[t].pick, ret |-> ret])

\* a call that ends in a nil pointer dereference (p.mu.Lock() on a nil
\* *TrafficProfile)
LogPanic(sess, op) ==
    Append(plog, [op |-> "panic", sess |-> sess, obj |-> "nil", kind |-> "",
                  mode |-> "", arg |-> op, pick |-> 0, ret |-> 0])

\* Session.SetTrafficProfile(profile), session.go lines 75-77: s.profile =
\* profile, for any pointer and at any time, without a lock.  The store of
\* the pointer is one step; the readers of s.profile read it in steps of
\* their own and find the old pointer or the new one.
SetTrafficProfile(sess, a) ==
    /\ ~Crashed
    /\ NPCalls < MaxCalls
    /\ IF a = "nil" THEN TRUE ELSE ~pheap[a].isNil
    /\ sprofile' = [sprofile EXCEPT ![sess] = a]
    /\ plog' = Append(plog,
           [op |-> "SetTrafficProfile", sess |-> sess, obj |-> a, kind |-> "",
            mode |-> "", arg |-> a, pick |-> 0, ret |-> 0])
    /\ UNCHANGED <<frameVars, tsVars, connVars, sessVars, unitVars, pheap, pmu,
                   ptask, obs, ks, clock>>

\* handleSession lines 238-242: the session is made and takes the clone
\* profileFromPolicy makes for it, a new object
SetProfileFromPolicy(sess, policy) ==
    /\ ~Crashed
    /\ Unborn(sess)
    /\ LET name == IF policy \in DOMAIN Profiles THEN policy ELSE "http2-api"
           a == cloneAddr(sess, name)
       IN  /\ pheap' = [pheap EXCEPT ![a] = profileFromPolicy(policy)]
           /\ sprofile' = [sprofile EXCEPT ![sess] = a]
           /\ plog' = Append(plog,
                  [op |-> "profileFromPolicy", sess |-> sess, obj |-> a,
                   kind |-> "", mode |-> "", arg |-> policy, pick |-> 0,
                   ret |-> profileFromPolicy(policy)])
    /\ UNCHANGED <<frameVars, tsVars, connVars, sessVars, unitVars, pmu, ptask, obs, ks,
                   clock>>

\* a task calls s.profile.GetPacketSize() / s.profile.GetDelay(): it reads
\* s.profile, and the call on a nil pointer panics at p.mu.Lock()
PCallGet(t, sess, kind, pick) ==
    /\ ptask[t].pc = "idle"
    /\ ~Crashed
    /\ NPCalls < MaxCalls
    /\ LET op == IF kind = "size" THEN "GetPacketSize" ELSE "GetDelay"
       IN  IF sprofile[sess] = "nil"
           THEN /\ plog' = LogPanic(sess, op)
                /\ UNCHANGED ptask
           ELSE /\ ptask' = [ptask EXCEPT ![t] =
                       [NoPCall EXCEPT !.pc = "lock", !.op = op,
                                       !.kind = kind, !.mode = "get",
                                       !.sess = sess, !.obj = sprofile[sess],
                                       !.pick = pick]]
                /\ UNCHANGED plog
    /\ UNCHANGED <<frameVars, tsVars, connVars, sessVars, unitVars, pheap, sprofile, pmu,
                   obs, ks, clock>>

\* a task calls s.profile.SetNextPacketSize(v) / SetNextDelay(v); a value
\* <= 0 returns at once (part_004 lines 168-170, 178-180), before the
\* receiver is touched
PCallSet(t, sess, kind, v) ==
    /\ ptask[t].pc = "idle"
    /\ ~Crashed
    /\ NPCalls < MaxCalls
    /\ LET call == [NoPCall EXCEPT !.pc = "lock",
                        !.op = IF kind = "size" THEN "SetNextPacketSize"
                               ELSE "SetNextDelay",
                        !.kind = kind, !.mode = "set", !.sess = sess,
                        !.obj = sprofile[sess], !.arg = v]
       IN  IF v <= 0
           THEN /\ plog' = Append(plog,
                       [op |-> call.op, sess |-> sess, obj |-> sprofile[sess],
                        kind |-> kind, mode |-> "set", arg |-> v, pick |-> 0,
                        ret |-> 0])
                /\ UNCHANGED ptask
           ELSE IF sprofile[sess] = "nil"
           THEN /\ plog' = LogPanic(sess, call.op)
                /\ UNCHANGED ptask
           ELSE /\ ptask' = [ptask EXCEPT ![t] = call]
                /\ UNCHANGED plog
    /\ UNCHANGED <<frameVars, tsVars, connVars, sessVars, unitVars, pheap, sprofile, pmu,
                   obs, ks, clock>>

\* the value HandleControlFrame hands to SetNextPacketSize / SetNextDelay
\* (part_004 lines 216, 221-222)
ControlValue(frame) ==
    IF frame.Type = FrameTypePadding THEN Uint16(frame.Payload.d)
    ELSE wrapDuration(wrapDuration(frame.Payload.d) * Millisecond)

\* a task calls Session.HandleControlFrame(frame), part_004 lines 207-215
\* and 218-221: the nil check of s.profile, the switch on the frame type,
\* the length check and the decoding.  A frame of another type returns nil.
PCallControl(t, sess, frame) ==
    /\ ptask[t].pc = "idle"
    /\ ~Crashed
    /\ NPCalls < MaxCalls
    /\ LET kind == IF frame.Type = FrameTypePadding THEN "size"
                   ELSE IF frame.Type = FrameTypeTiming THEN "delay"
                   ELSE ""
           err == IF sprofile[sess] = "nil" THEN ""
                  ELSE HandleControlFrame(pheap[sprofile[sess]], frame).err
           entry == [op |-> "HandleControlFrame", sess |-> sess,
                     obj |-> sprofile[sess], kind |-> kind,
                     mode |-> "set", arg |-> frame, pick |-> 0, ret |-> err]
       IN  IF sprofile[sess] = "nil" \/ kind = "" \/ err # ""
           THEN /\ plog' = Append(plog, entry)
                /\ UNCHANGED ptask
           ELSE /\ ptask' = [ptask EXCEPT ![t] =
                       [NoPCall EXCEPT !.pc = "ctl",
                                       !.op = "HandleControlFrame",
                                       !.kind = kind, !.mode = "set",
                                       !.sess = sess, !.arg = frame,
                                       !.local = ControlValue(frame)]]
                /\ UNCHANGED plog
    /\ UNCHANGED <<frameVars, tsVars, connVars, sessVars, unitVars, pheap, sprofile, pmu,
                   obs, ks, clock>>

\* HandleControlFrame lines 216 and 222: s.profile is read again and
\* SetNextPacketSize / SetNextDelay is called on it; a value <= 0 returns
\* at once
PControlSet(t) ==
    /\ ~Crashed
    /\ ptask[t].pc = "ctl"
    /\ LET a == sprofile[ptask[t].sess]
       IN  IF ptask[t].local <= 0
           THEN /\ plog' = Append(plog,
                       [op |-> "HandleControlFrame", sess |-> ptask[t].sess,
                        obj |-> a, kind |-> ptask[t].kind, mode |-> "set",
                        arg |-> ptask[t].arg, pick |-> 0, ret |-> ""])
                /\ ptask' = [ptask EXCEPT ![t] = NoPCall]
           ELSE IF a = "nil"
           THEN /\ plog' = LogPanic(ptask[t].sess, "HandleControlFrame")
                /\ ptask' = [ptask EXCEPT ![t] = NoPCall]
           ELSE /\ ptask' = [ptask EXCEPT ![t].pc = "lock", ![t].obj = a]
                /\ UNCHANGED plog
    /\ UNCHANGED <<frameVars, tsVars, connVars, sessVars, unitVars, pheap, sprofile, pmu,
                   obs, ks, clock>>

\* p.mu.Lock()
PLock(t) ==
    /\ ~Crashed
    /\ ptask[t].pc = "lock"
    /\ pmuFree(pmu[ptask[t].obj])
    /\ pmu' = [pmu EXCEPT ![ptask[t].obj] = t]
    /\ ptask' = [ptask EXCEPT ![t].pc = "locked"]
    /\ UNCHANGED <<frameVars, tsVars, connVars, sessVars, unitVars, pheap, sprofile, plog,
                   obs, ks, clock>>

Unlock(t, a) == [pmu EXCEPT ![a] = IF @ = t THEN 0 ELSE @]

\* a setter's body: p.nextPacketSize = size / p.nextDelay = delay, Unlock
PStore(t) ==
    /\ ~Crashed
    /\ ptask[t].pc = "locked"
    /\ ptask[t].mode = "set"
    /\ LET a == ptask[t].obj
           v == IF ptask[t].op = "HandleControlFrame" THEN ptask[t].local
                ELSE ptask[t].arg
       IN  /\ pheap' = [pheap EXCEPT ![a] =
                  IF ptask[t].kind = "size"
                  THEN SetNextPacketSize(@, v) ELSE SetNextDelay(@, v)]
           /\ pmu' = Unlock(t, a)
    /\ plog' = LogCall(t, IF ptask[t].op = "HandleControlFrame" THEN "" ELSE 0)
    /\ ptask' = [ptask EXCEPT ![t] = NoPCall]
    /\ UNCHANGED <<frameVars, tsVars, connVars, sessVars, unitVars, sprofile, obs, ks,
                   clock>>

\* a getter reads the override (part_004 lines 146-147, 158-159); without
\* one it samples the distribution and returns (lines 151, 163)
PRead(t) ==
    /\ ~Crashed
    /\ ptask[t].pc = "locked"
    /\ ptask[t].mode = "get"
    /\ LET a == ptask[t].obj
           p == pheap[a]
           next == IF ptask[t].kind = "size" THEN p.nextPacketSize
                   ELSE p.nextDelay
           sample == IF ptask[t].kind = "size"
                     THEN weightedPickSize(p.PacketSizes, ptask[t].pick)
                     ELSE weightedPickDelay(p.Delays, ptask[t].pick)
       IN  IF next > 0
           THEN /\ ptask' = [ptask EXCEPT ![t].pc = "clear", ![t].local = next]
                /\ UNCHANGED <<pmu, plog>>
           ELSE /\ pmu' = Unlock(t, a)
                /\ plog' = LogCall(t, sample)
                /\ ptask' = [ptask EXCEPT ![t] = NoPCall]
    /\ UNCHANGED <<frameVars, tsVars, connVars, sessVars, unitVars, pheap, sprofile, obs,
                   ks, clock>>

\* a getter clears the override it read and returns it (lines 148-149,
\* 160-161), Unlock
PClear(t) ==
    /\ ~Crashed
    /\ ptask[t].pc = "clear"
    /\ LET a == ptask[t].obj
       IN  /\ pheap' = [pheap EXCEPT ![a] =
                  IF ptask[t].kind = "size"
                  THEN [@ EXCEPT !.nextPacketSize = 0]
                  ELSE [@ EXCEPT !.nextDelay = 0]]
           /\ pmu' = Unlock(t, a)
    /\ plog' = LogCall(t, ptask[t].local)
    /\ ptask' = [ptask EXCEPT ![t] = NoPCall]
    /\ UNCHANGED <<frameVars, tsVars, connVars, sessVars, unitVars, sprofile, obs, ks,
                   clock>>

\* two sessions and two tasks: getters and setters race
ProfNext ==
    \/ \E sess \in ProfSessions, policy \in ProfPolicies :
           SetProfileFromPolicy(sess, policy)
    \/ \E t \in Tasks, sess \in ProfSessions, kind \in {"size", "delay"},
          pick \in ProfPicks : PCallGet(t, sess, kind, pick)
    \/ \E t \in Tasks, sess \in ProfSessions, v \in SizeArgs :
           PCallSet(t, sess, "size", v)
    \/ \E t \in Tasks, sess \in ProfSessions, v \in DelayArgs :
           PCallSet(t, sess, "delay", v)
    \/ \E t \in Tasks : PLock(t)
    \/ \E t \in Tasks : PStore(t)
    \/ \E t \in Tasks : PRead(t)
    \/ \E t \in Tasks : PClear(t)

SpecProf == ProfInit /\ [][ProfNext]_vars

\* one session under any policy, whose loop (task 1) handles control frames
\* and whose profile is sampled in between
CtlNext ==
    \/ \E policy \in Policies : SetProfileFromPolicy("s1", policy)
    \/ \E a \in OwnPointers : SetTrafficProfile("s1", a)
    \/ \E kind \in {"size", "delay"}, pick \in Picks :
           PCallGet(1, "s1", kind, pick)
    \/ \E frame \in ControlFrames : PCallControl(1, "s1", frame)
    \/ PControlSet(1)
    \/ PLock(1)
    \/ PStore(1)
    \/ PRead(1)
    \/ PClear(1)

SpecCtl == ProfInit /\ [][CtlNext]_vars

(***************************************************************************)
(* SpecObs: CreateProfileFromObservations on lists of captured sizes and   *)
(* delays.  A weight float64(count) / float64(total) is kept exact, as the *)
(* pair of count and total.                                                *)
(***************************************************************************)
MaxObs == 3        \* longest list of captured packet sizes

ObsSizeValues == {-1, 0, 200, 500}

ObsDelayLists == { <<>>, <<5 * Millisecond>>, <<5 * Millisecond, 0>> }

RECURSIVE SeqsUpTo(_, _)
SeqsUpTo(S, n) ==
    IF n = 0 THEN { <<>> }
    ELSE LET shorter == SeqsUpTo(S, n - 1)
         IN shorter \cup { Append(s, v) : s \in { q \in shorter : Len(q) = n - 1 }, v \in S }

ObsSizeLists == SeqsUpTo(ObsSizeValues, MaxObs)

\* lines 242 and 261: only positive values are counted
counted(v) == v > 0

\* lines 240-245: freq, the number of occurrences of each counted value
freqOf(values) ==
    [v \in { values[i] : i \in { k \in DOMAIN values : counted(values[k]) } } |->
        Cardinality({ i \in DOMAIN values : values[i] = v })]

\* lines 246-249: total, the sum of the counts
RECURSIVE totalOf(_, _)
totalOf(freq, keys) ==
    IF keys = {} THEN 0
    ELSE LET k == CHOOSE x \in keys : TRUE
         IN freq[k] + totalOf(freq, keys \ {k})

\* lines 250-254: one bucket per key of freq, sorted ascending by value
RECURSIVE sortedKeys(_)
sortedKeys(keys) ==
    IF keys = {} THEN <<>>
    ELSE LET m == CHOOSE x \in keys : \A y \in keys : x <= y
         IN <<m>> \o sortedKeys(keys \ {m})

calculateSizeDistribution(values) ==
    LET freq == freqOf(values)
        total == totalOf(freq, DOMAIN freq)
        order == sortedKeys(DOMAIN freq)
    IN [i \in DOMAIN order |->
           [Size |-> order[i],
            Weight |-> [count |-> freq[order[i]], total |-> total]]]

calculateDelayDistribution(values) ==
    LET freq == freqOf(values)
        total == totalOf(freq, DOMAIN freq)
        order == sortedKeys(DOMAIN freq)
    IN [i \in DOMAIN order |->
           [Delay |-> order[i],
            Weight |-> [count |-> freq[order[i]], total |-> total]]]

\* CreateProfileFromObservations(name, packetSizes, delays): [profile, err]
CreateProfileFromObservations(name, packetSizes, delays) ==
    IF Len(packetSizes) = 0 \/ Len(delays) = 0
    THEN [profile |-> NilProfile, err |-> "insufficient samples"]
    ELSE [profile |-> NewProfile(name, calculateSizeDistribution(packetSizes),
                                 calculateDelayDistribution(delays)),
          err |-> ""]

ObsIdle == [pc |-> "idle", packetSizes |-> <<>>, delays |-> <<>>,
            profile |-> NilProfile, err |-> ""]

ObsInit ==
    /\ FrameIdle
    /\ TsIdle
    /\ ClockIdle
    /\ NoConns
    /\ NoSession
    /\ pheap = <<>>
    /\ sprofile = <<>>
    /\ pmu = <<>>
    /\ ptask = <<>>
    /\ plog = <<>>
    /\ obs = ObsIdle
    /\ ks = <<>>
    /\ NoUnit

\* one call of CreateProfileFromObservations
ObsCreate(packetSizes, delays) ==
    /\ obs.pc = "idle"
    /\ LET r == CreateProfileFromObservations("observed", packetSizes, delays)
       IN obs' = [pc |-> "done", packetSizes |-> packetSizes,
                  delays |-> delays, profile |-> r.profile, err |-> r.err]
    /\ UNCHANGED <<frameVars, tsVars, connVars, sessVars, unitVars, clock,
                   pheap, sprofile, pmu, ptask, plog, ks>>

ObsNext ==
    \E packetSizes \in ObsSizeLists, delays \in ObsDelayLists :
        ObsCreate(packetSizes, delays)

SpecObs == ObsInit /\ [][ObsNext]_vars

(***************************************************************************)
(* SpecKS: KolmogorovSmirnovStatistic applied to three samples a, b and c. *)
(* A float64 sample value is an integer; the statistic, a difference of    *)
(* i/len(aa) and j/len(bb), is kept exact as num over den = len(aa) *      *)
(* len(bb).                                                                *)
(***************************************************************************)
MaxSample == 2     \* longest sample

KSValues == {1, 2, 3}
KSFarValues == {3, 4}

KSSamples == SeqsUpTo(KSValues, MaxSample)
KSFarSamples == SeqsUpTo(KSFarValues, MaxSample)

\* the calls made on the samples, in order
KSCalls == << <<"a", "b">>, <<"b", "a">>, <<"a", "a">>, <<"a", "c">>, <<"a", "b">> >>

\* s without its k-th element
removeAt(s, k) == SubSeq(s, 1, k - 1) \o SubSeq(s, k + 1, Len(s))

\* mutant: the copies are not sorted
sortFloat64s_None(s) == s

\* sort.Float64s: ascending order
RECURSIVE sortFloat64s(_)
sortFloat64s(s) ==
    IF Len(s) = 0 THEN <<>>
    ELSE LET k == CHOOSE x \in DOMAIN s : \A y \in DOMAIN s : s[x] <= s[y]
         IN <<s[k]>> \o sortFloat64s(removeAt(s, k))

\* the arrays a call allocates for aa and bb, besides the callers' arrays
KSLocals == {"aa", "bb"}

\* mutant: aa := a, the slice shares the caller's array
appendCopy_InPlace(mem, fresh, s) == [mem |-> mem, at |-> s]

\* lines 10-11: append([]float64(nil), s...) allocates the array `fresh`,
\* copies the elements of s into it and returns a slice of it
appendCopy(mem, fresh, s) ==
    [mem |-> [mem EXCEPT ![fresh] = mem[s]], at |-> fresh]

\* lines 24-31: diff := |cdfA - cdfB|, d := max(d, diff), as numerators
\* over len(aa) * len(bb)
maxDiff(d, i, j, n, m) ==
    LET diff == IF i * m - j * n < 0 THEN j * n - i * m ELSE i * m - j * n
    IN IF diff > d THEN diff ELSE d

\* lines 15-54: the main loop steps the side with the smaller head (a on a
\* tie), the two tail loops drain what is left; d is updated after each step
RECURSIVE ksLoop(_, _, _, _, _)
ksLoop(aa, bb, i, j, d) ==
    LET n == Len(aa)
        m == Len(bb)
    IN IF i < n /\ j < m
       THEN IF aa[i + 1] <= bb[j + 1]
            THEN ksLoop(aa, bb, i + 1, j, maxDiff(d, i + 1, j, n, m))
            ELSE ksLoop(aa, bb, i, j + 1, maxDiff(d, i, j + 1, n, m))
       ELSE IF i < n
       THEN ksLoop(aa, bb, i + 1, j, maxDiff(d, i + 1, j, n, m))
       ELSE IF j < m
       THEN ksLoop(aa, bb, i, j + 1, maxDiff(d, i, j + 1, n, m))
       ELSE d

\* KolmogorovSmirnovStatistic(a, b) on the slices a and b of the callers'
\* arrays: the statistic [num, den] and the callers' arrays after the call.
\* sort.Float64s (lines 12-13) sorts the array of its slice in place.
KolmogorovSmirnovStatistic(arrays, a, b) ==
    IF Len(arrays[a]) = 0 \/ Len(arrays[b]) = 0
    THEN [d |-> [num |-> 1, den |-> 1], arrays |-> arrays]
    ELSE LET mem == [x \in DOMAIN arrays \cup KSLocals |->
                         IF x \in DOMAIN arrays THEN arrays[x] ELSE <<>>]
             aa == appendCopy(mem, "aa", a)
             bb == appendCopy(aa.mem, "bb", b)
             sortedA == [bb.mem EXCEPT ![aa.at] = sortFloat64s(@)]
             sorted == [sortedA EXCEPT ![bb.at] = sortFloat64s(@)]
         IN [d |-> [num |-> ksLoop(sorted[aa.at], sorted[bb.at], 0, 0, 0),
                    den |-> Len(sorted[aa.at]) * Len(sorted[bb.at])],
             arrays |-> [x \in DOMAIN arrays |-> sorted[x]]]

\* the samples are drawn at the start; no call has been made
KSInit ==
    /\ FrameIdle
    /\ TsIdle
    /\ ClockIdle
    /\ NoConns
    /\ NoSession
    /\ pheap = <<>>
    /\ sprofile = <<>>
    /\ pmu = <<>>
    /\ ptask = <<>>
    /\ plog = <<>>
    /\ obs = <<>>
    /\ NoUnit
    /\ \E a \in KSSamples, b \in KSSamples, c \in KSFarSamples :
           ks = [in |-> [a |-> a, b |-> b, c |-> c],
                 slice |-> [a |-> a, b |-> b, c |-> c],
                 res |-> <<>>]

\* the next call of KSCalls on the samples as they are now
KSCall ==
    /\ Len(ks.res) < Len(KSCalls)
    /\ LET x == KSCalls[Len(ks.res) + 1][1]
           y == KSCalls[Len(ks.res) + 1][2]
           r == KolmogorovSmirnovStatistic(ks.slice, x, y)
       IN ks' = [ks EXCEPT !.res = Append(@, r.d), !.slice = r.arrays]
    /\ UNCHANGED <<frameVars, tsVars, connVars, sessVars, unitVars, clock,
                   pheap, sprofile, pmu, ptask, plog, obs>>

KSNext == KSCall

SpecKS == KSInit /\ [][KSNext]_vars

(***************************************************************************)
(* SpecWindow and SpecRead: a Session on its own calls ReadFrame on what a *)
(* connection delivers.  The peer seals its k-th frame (k = 0, 1, ...)     *)
(* under the session key with counter k; the reader gets these frames in   *)
(* order and, in between, frames already delivered a second time and       *)
(* items the peer never sent.  SpecWindow reads past the replay window;    *)
(* SpecRead reads a few frames, with every kind of failing input.          *)
(***************************************************************************)
MaxOver == 3          \* frames of the peer read beyond replayWindowSize
MaxResub == 2         \* reads of items other than the peer's next frame
MaxPeerFrames == 3    \* frames of the peer read in SpecRead

\* the peer's frames that are delivered a second time
ResubFrames == {0, 1}

PeerCiphertext(k) == aeadSeal(SessionKey, makeNonce(k), [n |-> 1, d |-> 0])

\* the k-th frame of the peer, whole
PeerFrame(k) ==
    Item(3, ctLen(PeerCiphertext(k)), FrameTypeData, PeerCiphertext(k),
         ctLen(PeerCiphertext(k)), "more")

\* items that are not frames of the peer, arriving where its frame `next` is
\* due: a ciphertext sealed under another key, a header with length 0, a
\* stream ending inside the header or inside the ciphertext, a read error
BadItems(next) ==
    LET ct == PeerCiphertext(next)
        forged == aeadSeal("X", makeNonce(next), [n |-> 1, d |-> 0])
    IN  { Item(3, ctLen(forged), FrameTypeData, forged, ctLen(forged), "more"),
          Item(3, 0, FrameTypeData, ct, 0, "more"),
          Item(2, 0, 0, ct, 0, "eof"),
          Item(3, ctLen(ct), FrameTypeData, ct, 5, "eof"),
          Item(1, 0, 0, ct, 0, "err") }

\* the reader after it has read the peer's first n frames, n at most
\* replayWindowSize, and nothing else
WinAfter(n) ==
    [sess |-> [NewSession(SessionKey) EXCEPT
                  !.readNonce = n,
                  !.replaySeen = {sha256Sum(PeerCiphertext(k)) : k \in 0..(n - 1)},
                  !.replayOrder = [i \in 1..n |-> sha256Sum(PeerCiphertext(i - 1))]],
     next |-> n, open |-> TRUE, good |-> 0..(n - 1),
     last |-> [err |-> "", rn |-> IF n = 0 THEN 0 ELSE n - 1, held |-> FALSE,
               kept |-> n = 0],
     log |-> <<>>]

\* frames the reader of SpecWindow has read when a behaviour begins
WindowStart == replayWindowSize - 3

WinInit(n) ==
    /\ FrameIdle
    /\ TsIdle
    /\ ClockIdle
    /\ NoConns
    /\ NoSession
    /\ pheap = <<>>
    /\ sprofile = <<>>
    /\ pmu = <<>>
    /\ ptask = <<>>
    /\ plog = <<>>
    /\ obs = <<>>
    /\ ks = <<>>
    /\ pk = <<>>
    /\ hp = <<>>
    /\ win = WinAfter(n)

\* what one ReadFrame call leaves behind: the session, and in `last` its
\* error, the read counter it began with, whether the replay set held the
\* ciphertext's hash when it began, and whether it left the session as it
\* found it
WinCall(item) ==
    LET r == ReadFrameFrom(win.sess, item)
    IN  [win EXCEPT !.sess = r.s,
                    !.open = item.fin = "more",
                    !.last = [err |-> r.err, rn |-> win.sess.readNonce,
                              held |-> sha256Sum(item.ct) \in win.sess.replaySeen,
                              kept |-> r.s = win.sess]]

\* ReadFrame on the peer's next frame
WinReadNext(limit) ==
    /\ win.open
    /\ win.next < limit
    /\ LET w == WinCall(PeerFrame(win.next))
       IN  win' = [w EXCEPT !.next = @ + 1,
                            !.good = IF w.last.err = ""
                                     THEN @ \cup {win.next} ELSE @]
    /\ UNCHANGED <<frameVars, tsVars, connVars, sessVars, clock, pheap,
                   sprofile, pmu, ptask, plog, obs, ks, pk, hp>>

\* ReadFrame on the bytes of frame k, which was delivered before
WinResubmit(k) ==
    /\ win.open
    /\ k < win.next
    /\ Len(win.log) < MaxResub
    /\ LET w == WinCall(PeerFrame(k))
       IN  win' = [w EXCEPT !.log = Append(@,
                      [k |-> k, err |-> w.last.err, held |-> w.last.held,
                       wasGood |-> k \in win.good])]
    /\ UNCHANGED <<frameVars, tsVars, connVars, sessVars, clock, pheap,
                   sprofile, pmu, ptask, plog, obs, ks, pk, hp>>

\* ReadFrame on an item the peer did not send
WinReadBad(item) ==
    /\ win.open
    /\ Len(win.log) < MaxResub
    /\ LET w == WinCall(item)
       IN  win' = [w EXCEPT !.log = Append(@,
                      [k |-> -1, err |-> w.last.err, held |-> w.last.held,
                       wasGood |-> FALSE])]
    /\ UNCHANGED <<frameVars, tsVars, connVars, sessVars, clock, pheap,
                   sprofile, pmu, ptask, plog, obs, ks, pk, hp>>

WindowNext ==
    \/ WinReadNext(replayWindowSize + MaxOver)
    \/ \E k \in ResubFrames : WinResubmit(k)

WindowInit == WinInit(WindowStart)

SpecWindow == WindowInit /\ [][WindowNext]_vars

ReadNext ==
    \/ WinReadNext(MaxPeerFrames)
    \/ \E k \in ResubFrames : WinResubmit(k)
    \/ \E item \in BadItems(win.next) : WinReadBad(item)

ReadInit == WinInit(0)

SpecRead == ReadInit /\ [][ReadNext]_vars

(***************************************************************************)
(* SpecPick: weightedPickSize on its own.  Weights and the draw of         *)
(* rand.Float64() are in percent.                                          *)
(***************************************************************************)
MaxBuckets == 3       \* buckets in a list

PickSizes == {200, 500}
PickWeights == {0, 30, 70}
PickDraws == {0, 30, 31, 100}

PickLists ==
    SeqsUpTo([Size : PickSizes, Weight : PickWeights], MaxBuckets)

PickInit ==
    /\ FrameIdle
    /\ TsIdle
    /\ ClockIdle
    /\ NoConns
    /\ NoSession
    /\ pheap = <<>>
    /\ sprofile = <<>>
    /\ pmu = <<>>
    /\ ptask = <<>>
    /\ plog = <<>>
    /\ obs = <<>>
    /\ ks = <<>>
    /\ win = <<>>
    /\ hp = <<>>
    /\ \E values \in PickLists, pick \in PickDraws :
          pk = [values |-> values, pick |-> pick, res |-> -1, pc |-> "call"]

\* weightedPickSize(values) with rand.Float64() = pick
PickCall ==
    /\ pk.pc = "call"
    /\ pk' = [pk EXCEPT !.res = weightedPickSize(pk.values, pk.pick),
                        !.pc = "done"]
    /\ UNCHANGED <<frameVars, tsVars, connVars, sessVars, clock, pheap,
                   sprofile, pmu, ptask, plog, obs, ks, win, hp>>

PickNext == PickCall

SpecPick == PickInit /\ [][PickNext]_vars

(***************************************************************************)
(* SpecParse: the two handshake parsers on the bytes of a handshake.  A    *)
(* ClientHandshake is [PublicKey, UserID, PolicyReq, Timestamp, Nonce]     *)
(* with byte sequences of 32, 16, n and 16 bytes; nil and empty PolicyReq  *)
(* are both <<>>.  A timestamp is an integer if it fits in 32 bits and the *)
(* 8 bytes themselves otherwise.                                           *)
(***************************************************************************)
MaxPolicyLen == 5     \* length of the short policy requests

\* n bytes of value v
Fill(n, v) == [i \in 1..n |-> v]

\* binary.BigEndian.Uint16 and PutUint16
Uint16BE(b) == b[1] * 256 + b[2]
PutUint16(v) == << v \div 256, v % 256 >>

\* the 4 bytes of u, 0 <= u < 2^31, most significant first
PutUint31(u) ==
    << u \div 16777216, (u \div 65536) % 256, (u \div 256) % 256, u % 256 >>

\* binary.BigEndian.PutUint64(buf, uint64(ts)) for ts of 32 bits
PutUint64(ts) ==
    IF ts >= 0 THEN Fill(4, 0) \o PutUint31(ts)
    ELSE LET u == (ts + 1073741824) + 1073741824
         IN  Fill(4, 255) \o << 128 + u \div 16777216, (u \div 65536) % 256,
                                (u \div 256) % 256, u % 256 >>

\* int64(binary.BigEndian.Uint64(b)) of 8 bytes
Int64BE(b) ==
    LET low == ((b[6] * 256) + b[7]) * 256 + b[8]
    IN  IF SubSeq(b, 1, 4) = Fill(4, 0) /\ b[5] < 128
        THEN b[5] * 16777216 + low
        ELSE IF SubSeq(b, 1, 4) = Fill(4, 255) /\ b[5] >= 128
        THEN (((b[5] - 128) * 16777216 + low) - 1073741824) - 1073741824
        ELSE << "wide", b >>

\* ClientHandshake{}
ZeroHandshake ==
    [PublicKey |-> Fill(32, 0), UserID |-> Fill(16, 0), PolicyReq |-> <<>>,
     Timestamp |-> 0, Nonce |-> Fill(16, 0)]

\* marshalClientHandshake(hs): the 74 + len(PolicyReq) bytes of hs
marshalClientHandshake(hs) ==
    hs.PublicKey \o hs.UserID \o PutUint64(hs.Timestamp) \o hs.Nonce
        \o PutUint16(Uint16(Len(hs.PolicyReq))) \o hs.PolicyReq

\* the fields of the 74-byte head, and the policy that follows it
HeadFields(head, policy) ==
    [PublicKey |-> SubSeq(head, 1, 32), UserID |-> SubSeq(head, 33, 48),
     PolicyReq |-> policy, Timestamp |-> Int64BE(SubSeq(head, 49, 56)),
     Nonce |-> SubSeq(head, 57, 72)]

\* what io.ReadFull returns when the reader holds have < want bytes
ShortRead(have) == IF have = 0 THEN "EOF" ELSE "unexpected EOF"

\* readBinaryHandshake(r) on a reader that holds the bytes r and then ends:
\* [err, hs, used], used the bytes taken from the reader
readBinaryHandshakeWire(r) ==
    IF Len(r) < 74
    THEN [err |-> ShortRead(Len(r)), hs |-> ZeroHandshake, used |-> Len(r)]
    ELSE LET policyLen == Uint16BE(SubSeq(r, 73, 74))
         IN  IF policyLen > maxPolicyPayloadSize
             THEN [err |-> "reflex handshake policy too large",
                   hs |-> ZeroHandshake, used |-> 74]
             ELSE IF policyLen > 0 /\ Len(r) - 74 < policyLen
             THEN [err |-> ShortRead(Len(r) - 74), hs |-> ZeroHandshake,
                   used |-> Len(r)]
             ELSE [err |-> "",
                   hs |-> HeadFields(SubSeq(r, 1, 74),
                                     SubSeq(r, 75, 74 + policyLen)),
                   used |-> 74 + policyLen]

\* parseBinaryHandshake(raw): [err, hs]
parseBinaryHandshakeWire(raw) ==
    IF Len(raw) < 74
    THEN [err |-> "reflex handshake too short", hs |-> ZeroHandshake]
    ELSE LET policyLen == Uint16BE(SubSeq(raw, 73, 74))
         IN  IF policyLen > maxPolicyPayloadSize
             THEN [err |-> "reflex handshake policy too large",
                   hs |-> ZeroHandshake]
             ELSE IF Len(raw) # 74 + policyLen
             THEN [err |-> "reflex handshake malformed payload length",
                   hs |-> ZeroHandshake]
             ELSE [err |-> "",
                   hs |-> HeadFields(SubSeq(raw, 1, 74),
                              IF policyLen > 0 THEN SubSeq(raw, 75, Len(raw))
                              ELSE <<>>)]

\* handleReflexHTTP lines 134-138 on the decoded payload: the magic is
\* stripped if the payload begins with it, and the rest is parsed
parseHTTPPayload(rawPayload) ==
    IF Len(rawPayload) >= 4 /\ Uint32BE(SubSeq(rawPayload, 1, 4)) = ReflexMagic
    THEN parseBinaryHandshakeWire(SubSeq(rawPayload, 5, Len(rawPayload)))
    ELSE parseBinaryHandshakeWire(rawPayload)

\* handleReflexMagic lines 95-104 on the bytes after detection: the magic
\* is read, then the handshake
readMagicStream(stream) ==
    IF Len(stream) < 4
    THEN [err |-> ShortRead(Len(stream)), hs |-> ZeroHandshake,
          used |-> Len(stream)]
    ELSE IF Uint32BE(SubSeq(stream, 1, 4)) # ReflexMagic
    THEN [err |-> "not reflex", hs |-> ZeroHandshake, used |-> 4]
    ELSE LET r == readBinaryHandshakeWire(SubSeq(stream, 5, Len(stream)))
         IN  [r EXCEPT !.used = @ + 4]

\* the handshakes clients send: a public key that begins with an arbitrary
\* 4 bytes or with the bytes of the magic, and a policy request of zero
\* bytes, of JSON text, or of the largest size
WireKeys == { <<1, 2, 3, 4>> \o Fill(28, 7), MagicBytes \o Fill(28, 7) }
WireTimestamps == {0, 1700000000, -1}
WirePolicies ==
    { Fill(n, 0) : n \in 0..MaxPolicyLen }
    \cup { <<123, 125>>, Fill(maxPolicyPayloadSize, 0) }

WireHandshakes ==
    { [PublicKey |-> k, UserID |-> Fill(16, 5), PolicyReq |-> p,
       Timestamp |-> ts, Nonce |-> Fill(16, 9)] :
      k \in WireKeys, p \in WirePolicies, ts \in WireTimestamps }

\* the policy length fields a client writes: the true one (-1), or one the
\* parsers must refuse
WireFields == {-1, maxPolicyPayloadSize + 1, 65535}

\* the bytes of hs with the policy length field as the client wrote it
WireOf(hs, field) ==
    LET raw == marshalClientHandshake(hs)
    IN  IF field < 0 THEN raw
        ELSE SubSeq(raw, 1, 72) \o PutUint16(field)
                 \o SubSeq(raw, 75, Len(raw))

NoResult == [err |-> "pending", hs |-> ZeroHandshake]

ParseInit ==
    /\ FrameIdle
    /\ TsIdle
    /\ ClockIdle
    /\ NoConns
    /\ NoSession
    /\ pheap = <<>>
    /\ sprofile = <<>>
    /\ pmu = <<>>
    /\ ptask = <<>>
    /\ plog = <<>>
    /\ obs = <<>>
    /\ ks = <<>>
    /\ win = <<>>
    /\ pk = <<>>
    /\ \E hs \in WireHandshakes, field \in WireFields :
          hp = [hs |-> hs, field |-> field, read |-> NoResult,
                parse |-> NoResult, bare |-> NoResult, magic |-> NoResult]

\* the binary framing: the client sends the magic and the handshake
ReadWire ==
    /\ hp.read = NoResult
    /\ LET r == readMagicStream(MagicBytes \o WireOf(hp.hs, hp.field))
       IN  hp' = [hp EXCEPT !.read = [err |-> r.err, hs |-> r.hs]]
    /\ UNCHANGED <<frameVars, tsVars, connVars, sessVars, clock, pheap,
                   sprofile, pmu, ptask, plog, obs, ks, win, pk>>

\* parseBinaryHandshake on the handshake's bytes
ParseWire ==
    /\ hp.parse = NoResult
    /\ hp' = [hp EXCEPT !.parse =
                  parseBinaryHandshakeWire(WireOf(hp.hs, hp.field))]
    /\ UNCHANGED <<frameVars, tsVars, connVars, sessVars, clock, pheap,
                   sprofile, pmu, ptask, plog, obs, ks, win, pk>>

\* the HTTP framing: the envelope decodes to the handshake's bytes, sent
\* with the magic in front or without it
ParsePayload(withMagic) ==
    /\ IF withMagic THEN hp.magic = NoResult ELSE hp.bare = NoResult
    /\ LET payload == WireOf(hp.hs, hp.field)
       IN  IF withMagic
           THEN hp' = [hp EXCEPT !.magic = parseHTTPPayload(MagicBytes \o payload)]
           ELSE hp' = [hp EXCEPT !.bare = parseHTTPPayload(payload)]
    /\ UNCHANGED <<frameVars, tsVars, connVars, sessVars, clock, pheap,
                   sprofile, pmu, ptask, plog, obs, ks, win, pk>>

ParseNext ==
    \/ ReadWire
    \/ ParseWire
    \/ \E withMagic \in BOOLEAN : ParsePayload(withMagic)

SpecParse == ParseInit /\ [][ParseNext]_vars

(***************************************************************************)
(* Properties of the handshake handler                                     *)
(***************************************************************************)
HandshakeFailures ==
    {"malformed", "timestamp", "nonce", "ecdh", "user", "keygen", "hkdf", "grant"}

AuthFailures == {"timestamp", "nonce", "ecdh", "user"}
CryptoFailures == {"keygen", "hkdf", "grant"}

NotConfiguredErr == "reflex handshake not matched and fallback is not configured"

\* the handler of connection c has stated its return value
Returning(c) == cpc[c] \in {"bodyclose", "done"}

\* handleFallback has been called, or is the call the handler makes next
FallbackInvoked(c) ==
    cpc[c] = "fallback" \/ "handleFallback" \in clog[c].handlers

SessionEntered(c) ==
    \/ "200" \in {cout[c][i] : i \in DOMAIN cout[c]}
    \/ "handleSession" \in clog[c].handlers
    \/ clog[c].sessReads > 0

\* C1: the 200 response is written and the session loop entered only when
\* the timestamp was within handshakeSkew of the clock, the nonce was not in
\* the nonce store, key agreement succeeded and the user id is the id of a
\* configured client; the response and the session loop go together, and
\* the session reads nothing on a connection without them.
C1_AcceptOnlyValid ==
    \A c \in Conns :
        /\ SessionEntered(c) =>
              /\ clog[c].tsOK
              /\ clog[c].nonceFresh
              /\ clog[c].noncePass
              /\ chs[c].PublicKey = "good"
              /\ \E i \in DOMAIN Clients : Clients[i].ID = uuidString(chs[c].UserID)
              /\ cout[c] = <<"200">>
              /\ "handleSession" \in clog[c].handlers
              /\ clog[c].fail = "none"
        /\ clog[c].fail # "none" => ~SessionEntered(c)

C1_Witness ==
    \E c \in Conns :
        /\ cout[c] = <<"200">>
        /\ clog[c].sessReads = 1
        /\ cpc[c] = "done"

\* the connection has been through checkAndStoreNonce
NonceChecked(c) ==
    clog[c].nonceAt # -1 /\ cpc[c] # "store"

\* C6: of two handshakes with the same nonce that went through the nonce
\* check no further apart than the nonce lifetime, one passed, and the store
\* holds the nonce with the time of its check; the other was answered 403
\* and handed to the fallback.
C6_NonceOnce ==
    \A c1, c2 \in Conns :
        ( /\ c1 # c2
          /\ NonceChecked(c1)
          /\ NonceChecked(c2)
          /\ chs[c1].Nonce = chs[c2].Nonce
          /\ clog[c1].nonceAt <= clog[c2].nonceAt
          /\ clog[c2].nonceAt - clog[c1].nonceAt <= defaultNonceLifetime )
        => \E p, r \in {c1, c2} :
              /\ p # r
              /\ clog[p].noncePass
              /\ chs[p].Nonce \in DOMAIN seenNonces
              /\ seenNonces[chs[p].Nonce] = clog[p].nonceAt
              /\ ~clog[r].noncePass
              /\ clog[r].fail = "nonce"
              /\ cout[r] = <<"403">>
              /\ FallbackInvoked(r)

C6_Witness ==
    \E p, r \in Conns :
        /\ p # r
        /\ chs[p].Nonce = chs[r].Nonce
        /\ clog[p].noncePass
        /\ cpc[p] = "keys"
        /\ clog[r].fail = "nonce"
        /\ cout[r] = <<"403">>
        /\ "handleFallback" \in clog[r].handlers

\* C8 as the code has it: a malformed handshake is handed to the fallback
\* with nothing written to the client; a stale timestamp, a repeated nonce,
\* a failed key agreement and an unknown user are answered 403 and handed
\* to the fallback; a failure to make the key pair, the session key or the
\* policy grant is answered 500 and returned, with no fallback; and a
\* fallback that is not configured returns its error and relays nothing.
C8_FailurePolicy ==
    \A c \in Conns :
        /\ clog[c].fail = "malformed" =>
              cout[c] = <<>> /\ FallbackInvoked(c)
        /\ clog[c].fail \in AuthFailures =>
              cout[c] = <<"403">> /\ FallbackInvoked(c)
        /\ clog[c].fail \in CryptoFailures =>
              /\ cout[c] = <<"500">>
              /\ ~FallbackInvoked(c)
              /\ Returning(c)
              /\ cret[c] = clog[c].fail
        /\ ( /\ "handleFallback" \in clog[c].handlers
             /\ hfallback.isNil \/ hfallback.Dest = 0 )
           => cret[c] = NotConfiguredErr /\ fbRecv[c] = <<>>

C8_Witness ==
    \E c1, c2 \in Conns :
        /\ clog[c1].fail = "malformed"
        /\ cout[c1] = <<>>
        /\ "handleFallback" \in clog[c1].handlers
        /\ clog[c2].fail \in CryptoFailures
        /\ cout[c2] = <<"500">>
        /\ cret[c2] = clog[c2].fail

\* C8 as stated: every handshake failure is answered with an HTTP error
\* (500 for a crypto failure, 403 otherwise) and then handed to the fallback.
C8_AsStated ==
    \A c \in Conns :
        clog[c].fail \in HandshakeFailures =>
            /\ cout[c] = IF clog[c].fail \in CryptoFailures
                         THEN <<"500">> ELSE <<"403">>
            /\ FallbackInvoked(c)

\* the peek of Process returns bytes: 64 of them, or fewer at the end of a
\* stream that has at least one
PeekHasData(st) ==
    st.n >= reflexMinHandshakeSize \/ (st.fin = "eof" /\ st.n >= 1)

FirstBytes(st, k, bytes) ==
    st.n >= k /\ Len(st.head) >= k /\ SubSeq(st.head, 1, k) = bytes

\* C9: a connection whose peek returns bytes goes to the binary handshake
\* exactly when its first 4 bytes are the magic, else to the HTTP handshake
\* exactly when its first 5 bytes are "POST ", else to the fallback, also
\* when the stream ended before 64 bytes; a peek that returns nothing goes
\* to the fallback; each connection takes one of the three routes and only
\* the handler of its route runs first.
C9_Detection ==
    \A c \in Conns :
        clog[c].route # "none" =>
            LET st == cin[c]
                magic == FirstBytes(st, 4, MagicBytes)
                post == FirstBytes(st, 5, PostPrefix)
            IN  /\ clog[c].route \in {"magic", "http", "fallback"}
                /\ PeekHasData(st) =>
                      /\ (clog[c].route = "magic") <=> magic
                      /\ (clog[c].route = "http") <=> (~magic /\ post)
                      /\ (clog[c].route = "fallback") <=> (~magic /\ ~post)
                /\ ~PeekHasData(st) => clog[c].route = "fallback"
                /\ "handleReflexMagic" \in clog[c].handlers =>
                      clog[c].route = "magic"
                /\ "handleReflexHTTP" \in clog[c].handlers =>
                      clog[c].route = "http"
                /\ clog[c].direct <=> clog[c].route = "fallback"

C9_Witness ==
    \E c \in Conns :
        /\ clog[c].route = "magic"
        /\ cin[c].n < reflexMinHandshakeSize
        /\ "handleReflexMagic" \in clog[c].handlers

\* the intervals handed to the fallback target are the whole client stream,
\* from its first byte, in order and without a gap
WholeStream(c) ==
    LET r == fbRecv[c]
    IN  IF cin[c].n = 0 THEN r = <<>>
        ELSE /\ r # <<>>
             /\ r[1][1] = 0
             /\ r[Len(r)][2] = cin[c].n
             /\ \A i \in 1..(Len(r) - 1) : r[i][2] = r[i + 1][1]

\* C10: when the fallback relay has copied the client's stream to its end,
\* the target has received every byte the client sent, from the first.
C10_FallbackReceivesEveryByte ==
    \A c \in Conns :
        ("handleFallback" \in clog[c].handlers /\ clog[c].c2tEOF)
            => WholeStream(c)

\* C11: with no fallback configured (none, or one with port 0), a connection
\* whose first bytes are neither the magic nor "POST " gets no byte written
\* to it, and Process returns the "not configured" error without relaying.
C11_UnconfiguredFallback ==
    \A c \in Conns :
        ( /\ cpc[c] # "idle"
          /\ hfallback.isNil \/ hfallback.Dest = 0
          /\ ~FirstBytes(cin[c], 4, MagicBytes)
          /\ ~FirstBytes(cin[c], 5, PostPrefix) )
        => /\ cout[c] = <<>>
           /\ fbRecv[c] = <<>>
           /\ cpc[c] \in {"detect", "fallback", "done"}
           /\ cpc[c] = "done" => cret[c] = NotConfiguredErr

C11_Witness ==
    \E c \in Conns :
        /\ cpc[c] = "done"
        /\ clog[c].direct
        /\ ~hfallback.isNil
        /\ hfallback.Dest = 0
        /\ cin[c].n > 0
        /\ cret[c] = NotConfiguredErr
        /\ cout[c] = <<>>

\* handleFallback dialled its target, ran the relay and returned
RelayReturned(c) ==
    Returning(c) /\ clog[c].c2t # "none"

\* C12: when handleFallback returns from a relay, each copy direction has
\* reached end of stream or an error, and the return value is success
\* exactly when both ended cleanly.
C12_RelayRunsBothToEnd ==
    \A c \in Conns :
        RelayReturned(c) =>
            /\ clog[c].c2t \in {"eof", "err"}
            /\ clog[c].t2c \in {"eof", "err"}
            /\ (cret[c] = "") <=> (clog[c].c2t = "eof" /\ clog[c].t2c = "eof")

(***************************************************************************)
(* Properties of the session loop                                          *)
(***************************************************************************)

RECURSIVE Flatten(_)
Flatten(seqs) ==
    IF seqs = <<>> THEN <<>> ELSE Head(seqs) \o Flatten(Tail(seqs))

\* the payloads of the DATA frames among frames, in arrival order
RECURSIVE DataPayloadsOf(_)
DataPayloadsOf(frames) ==
    IF frames = <<>> THEN <<>>
    ELSE IF Head(frames).Type = FrameTypeData
         THEN <<Head(frames).Payload.d>> \o DataPayloadsOf(Tail(frames))
         ELSE DataPayloadsOf(Tail(frames))

\* the bytes after addr_len, addr and the 2-byte port of the first DATA
\* payload, followed by the later DATA payloads
ExpectedUpstream(frames) ==
    LET ps == DataPayloadsOf(frames)
    IN  IF ps = <<>> THEN <<>>
        ELSE SubSeq(Head(ps), 4 + Head(ps)[1], Len(Head(ps)))
                 \o Flatten(Tail(ps))

\* the loop holds a DATA frame whose bytes it has not yet written upstream
WritePending == loop.pc \in {"dispatch", "go", "write1", "write"}

\* C13: the Dispatcher is invoked at most once, with the TCP destination
\* parsed from the first DATA payload; the bytes written upstream are the
\* remainder of that payload followed by the whole payloads of the later
\* DATA frames, in arrival order (a frame whose upstream write failed or
\* has not yet been made excepted), and nothing else.
C13_ClientToUpstream ==
    LET ps == DataPayloadsOf(loop.frames)
    IN  /\ loop.dispatched <= 1
        /\ loop.link => loop.dispatched = 1
        /\ loop.dispatched = 1 =>
               /\ ps # <<>>
               /\ Len(Head(ps)) >= 3 + Head(ps)[1]
               /\ loop.dest = <<"tcp", SubSeq(Head(ps), 2, 1 + Head(ps)[1]),
                                Head(ps)[2 + Head(ps)[1]] * 256
                                    + Head(ps)[3 + Head(ps)[1]]>>
        /\ ~loop.link => up.out = <<>>
        /\ loop.link =>
               Flatten(up.out) =
                   IF loop.ret = "upstream write error" \/ WritePending
                   THEN ExpectedUpstream(SubSeq(loop.frames, 1,
                                                Len(loop.frames) - 1))
                   ELSE ExpectedUpstream(loop.frames)

C13_Witness ==
    /\ loop.link
    /\ Len(loop.frames) = 3
    /\ loop.frames[1].Type = FrameTypeData
    /\ loop.frames[2].Type = FrameTypePadding
    /\ loop.frames[3].Type = FrameTypeData
    /\ loop.dest = <<"tcp", <<97>>, 80>>
    /\ Flatten(up.out) = <<7, 8, 1, 97, 0, 80>>

\* a CLOSE frame has been written to the client
CloseSent ==
    \E i \in 1..Len(mout) : mout[i].ftype = FrameTypeClose

\* C14: once the upstream has reached EOF while the session loop is running,
\* the loop eventually has sent a CLOSE frame to the client and returned
\* success, whatever the client does from then on.
C14_UpstreamEOFCloses ==
    (up.ended = "EOF" /\ loop.pc # "done")
        ~> (loop.pc = "done" /\ loop.ret = "" /\ CloseSent)

\* the session loop has read a CLOSE frame
CloseRead ==
    \E i \in 1..Len(loop.frames) : loop.frames[i].Type = FrameTypeClose

\* C15: once the loop has read a CLOSE frame it has returned success, the
\* CLOSE frame is the last item it took from the client, the link's writer
\* is closed if a link was obtained, and with no DATA frame before the CLOSE
\* the Dispatcher was never invoked.
C15_CloseFrame ==
    CloseRead =>
        /\ loop.pc = "done"
        /\ loop.ret = ""
        /\ loop.frames[Len(loop.frames)].Type = FrameTypeClose
        /\ \A i \in 1..(Len(loop.frames) - 1) :
               loop.frames[i].Type # FrameTypeClose
        /\ loop.last.ftype = FrameTypeClose
        /\ loop.last.fin = "more"
        /\ client.sent = Len(loop.frames)
        /\ loop.link => loop.writerClosed
        /\ DataPayloadsOf(loop.frames) = <<>> =>
               (loop.dispatched = 0 /\ ~loop.link)

C15_Witness ==
    /\ CloseRead
    /\ Len(loop.frames) = 3
    /\ loop.link
    /\ loop.writerClosed
    /\ loop.ret = ""

\* C16: when the session loop has returned after a link was obtained, the
\* link's writer has been closed.
C16_LinkClosedOnExit ==
    (loop.pc = "done" /\ loop.link) => loop.writerClosed

\* C17: when the loop has returned because the client's stream ended, it
\* returned success exactly when no byte of a next frame had been read.
C17_EOFAtBoundaryOnly ==
    (loop.pc = "done" /\ loop.last.fin = "eof")
        => ((loop.ret = "") <=> (loop.last.hdr = 0))

(***************************************************************************)
(* Properties of traffic morphing, checked under SpecMorph                 *)
(***************************************************************************)

\* the frames a morphed write of data owes with a constant target and a
\* constant delay: per chunk a DATA frame, a PADDING frame holding the
\* target in 2 bytes, and a TIMING frame holding the delay in 8 bytes if
\* the delay is positive
RECURSIVE MorphedFrames(_, _, _, _)
MorphedFrames(data, remaining, target, delay) ==
    IF remaining = 0 THEN <<>>
    ELSE LET chunkSize == Min(remaining, target)
         IN  << [ftype |-> FrameTypeData,
                 pt |-> [n |-> chunkSize, d |-> <<data.d, data.n - remaining>>]],
                [ftype |-> FrameTypePadding, pt |-> [n |-> 2, d |-> target]] >>
             \o (IF delay > 0
                 THEN << [ftype |-> FrameTypeTiming,
                          pt |-> [n |-> 8, d |-> delay \div 1000000]] >>
                 ELSE <<>>)
             \o MorphedFrames(data, remaining - chunkSize, target, delay)

\* C19: on a connection that accepts every write, a returned
\* WriteFrameWithMorphing(DATA, data) call under a profile with a constant
\* target > 0 has succeeded and has emitted ceil(|data|/target) DATA frames,
\* each followed by its PADDING frame and, for a positive delay, its TIMING
\* frame; a call with another type or a nil profile has emitted the one
\* frame WriteFrame emits.
C19_MorphingFrameCount ==
    LET call == mtask[1]
        target == ConstTarget(profile)
        frames == MorphedFrames(call.data, call.data.n, target,
                                ConstDelay(profile))
    IN  (call.pc = "ret" /\ client.connOpen) =>
            IF call.ftype # FrameTypeData \/ profile.isNil
            THEN call.data.n + 16 <= 65535 =>
                     /\ call.err = ""
                     /\ call.emitted = << [ftype |-> call.ftype, pt |-> call.data] >>
            ELSE target > 0 =>
                     /\ call.err = ""
                     /\ call.emitted = frames
                     /\ Cardinality({i \in 1..Len(call.emitted) :
                            call.emitted[i].ftype = FrameTypeData})
                          = CeilDiv(call.data.n, target)

\* C20: while a WriteFrameWithMorphing call sleeps, no frame is added to
\* the wire.
C20_SleepHoldsWriteLock ==
    \A t \in Tasks : mtask[t].pc = "sleep" => Len(mout) = mtask[t].mark

(***************************************************************************)
(* Properties of traffic profiles, checked under SpecProf and SpecCtl      *)
(***************************************************************************)

\* a returned getter call
IsGet(e) == e.op \in {"GetPacketSize", "GetDelay"}

\* a returned SetNextPacketSize / SetNextDelay call with a positive value
IsPositiveSet(e) ==
    IF e.op \in {"SetNextPacketSize", "SetNextDelay"} THEN e.arg > 0 ELSE FALSE

\* the last call before the j-th, on the same profile object and the same
\* kind of override, that satisfies Q; 0 if there is none
LastBefore(j, Q(_)) ==
    LET is == {i \in 1..(j - 1) : /\ plog[i].obj = plog[j].obj
                                  /\ plog[i].kind = plog[j].kind
                                  /\ Q(plog[i])}
    IN  IF is = {} THEN 0 ELSE CHOOSE i \in is : \A k \in is : k <= i

\* what the j-th call, a getter, samples from its profile's distribution
SampleOf(j) ==
    LET p == pheap[plog[j].obj]
    IN  IF plog[j].kind = "size"
        THEN weightedPickSize(p.PacketSizes, plog[j].pick)
        ELSE weightedPickDelay(p.Delays, plog[j].pick)

\* C21: single-shot overrides.  A getter returns the value of a positive
\* SetNextPacketSize / SetNextDelay on its profile exactly when that set is
\* the latest getter-or-positive-set before it; a getter that follows
\* another getter samples the distribution; a set with a value <= 0 counts
\* for nothing, also when an override is pending.
C21_SingleShotOverrides ==
    \A j \in 1..Len(plog) :
        IsGet(plog[j]) =>
            LET gs(e) == IsGet(e) \/ IsPositiveSet(e)
                i == LastBefore(j, gs)
            IN  IF i # 0 /\ ~IsGet(plog[i])
                THEN plog[j].ret = plog[i].arg
                ELSE plog[j].ret = SampleOf(j)

C21_Witness ==
    /\ Len(plog) = 5
    /\ plog[3].op = "SetNextPacketSize" /\ plog[3].sess = "s1"
    /\ plog[3].arg = 77
    /\ plog[4].op = "GetPacketSize" /\ plog[4].sess = "s1"
    /\ plog[4].ret = 77
    /\ plog[5].op = "GetPacketSize" /\ plog[5].sess = "s1"
    /\ plog[5].ret = 500

\* the override of a kind that session sess holds
OverrideOf(sess, kind) ==
    IF kind = "size" THEN pheap[sprofile[sess]].nextPacketSize
    ELSE pheap[sprofile[sess]].nextDelay

\* the override the session's own returned calls on its profile leave
\* behind
OwnOverride(sess, kind) ==
    LET is == {i \in 1..Len(plog) :
                    /\ plog[i].sess = sess
                    /\ plog[i].obj = sprofile[sess]
                    /\ plog[i].kind = kind
                    /\ IsGet(plog[i]) \/ IsPositiveSet(plog[i])}
        last == CHOOSE i \in is : \A k \in is : k <= i
    IN  IF is = {} THEN 0
        ELSE IF IsGet(plog[last]) THEN 0 ELSE plog[last].arg

\* every session has its profile the way handleSession installs it: no
\* caller has handed a pointer of its own to SetTrafficProfile
OnlyClones == \A i \in 1..Len(plog) : plog[i].op # "SetTrafficProfile"

\* C23: profile isolation, for sessions that take their profile from
\* profileFromPolicy as handleSession does.  The templates of Profiles stay
\* as initialised; every session's profile is an object of its own; and the
\* overrides a session holds are those its own calls left, whatever the
\* other session did.
C23_ProfileIsolation ==
    OnlyClones =>
        /\ \A name \in DOMAIN Profiles : pheap[name] = Profiles[name]
        /\ \A s \in ProfSessions :
               sprofile[s] # "nil" =>
                   /\ sprofile[s] \notin DOMAIN Profiles
                   /\ \A r \in ProfSessions \ {s} : sprofile[r] # sprofile[s]
                   /\ (\A t \in Tasks :
                           ptask[t].obj = sprofile[s]
                               => ptask[t].pc \notin {"locked", "clear"})
                          => \A kind \in {"size", "delay"} :
                                 OverrideOf(s, kind) = OwnOverride(s, kind)

C23_Witness ==
    /\ OnlyClones
    /\ sprofile["s1"] # "nil"
    /\ sprofile["s2"] # "nil"
    /\ pheap[sprofile["s1"]].nextPacketSize = 77
    /\ pheap[sprofile["s2"]].nextPacketSize = 0
    /\ \E j \in 1..Len(plog) :
           /\ plog[j].op = "GetPacketSize"
           /\ plog[j].sess = "s2"
           /\ \E i \in 1..(j - 1) :
                  plog[i].op = "SetNextPacketSize" /\ plog[i].sess = "s1"
                      /\ plog[i].arg = 77

\* a returned HandleControlFrame call whose payload has the length its
\* frame type requires
IsValidControl(e) ==
    IF e.op = "HandleControlFrame"
    THEN \/ e.arg.Type = FrameTypePadding /\ e.arg.Payload.n = 2
         \/ e.arg.Type = FrameTypeTiming /\ e.arg.Payload.n = 8
    ELSE FALSE

\* C22: HandleControlFrame returns an error exactly for a PADDING payload
\* of length # 2 or a TIMING payload of length # 8; the first getter after
\* a well-formed PADDING frame of value n > 0 returns n, after a well-formed
\* TIMING frame of value m > 0 returns m milliseconds, for every such n and
\* m; a refused frame leaves the overrides as they were.  (A value of 0 is
\* an override with a non-positive value, which the profile ignores.)
C22_ControlFrameOverrides ==
    /\ \A i \in 1..Len(plog) :
           (/\ plog[i].op = "HandleControlFrame"
            /\ plog[i].obj # "nil"
            /\ plog[i].arg.Type \in {FrameTypePadding, FrameTypeTiming}) =>
               (plog[i].ret = "" <=> IsValidControl(plog[i]))
    /\ \A j \in 1..Len(plog) :
           IsGet(plog[j]) =>
               LET gc(e) == IsGet(e)
                            \/ (IsValidControl(e) /\ e.arg.Payload.d > 0)
                   i == LastBefore(j, gc)
               IN  IF i # 0 /\ ~IsGet(plog[i])
                   THEN plog[j].ret =
                            IF plog[j].kind = "size" THEN plog[i].arg.Payload.d
                            ELSE plog[i].arg.Payload.d * 1000000
                   ELSE plog[j].ret = SampleOf(j)

\* C24: policy resolution.  http2-api, mimic-http2-api, youtube and zoom
\* resolve to their own built-in buckets, every other policy to those of
\* http2-api, always to a profile; mimic-http2-api has the buckets of
\* http2-api.
C24_PolicyResolution ==
    /\ Profiles["mimic-http2-api"].PacketSizes = Profiles["http2-api"].PacketSizes
    /\ Profiles["mimic-http2-api"].Delays = Profiles["http2-api"].Delays
    /\ Profiles["http2-api"].PacketSizes = http2apiSizes
    /\ Profiles["http2-api"].Delays = http2apiDelays
    /\ \A i \in 1..Len(plog) :
           plog[i].op = "profileFromPolicy" =>
               /\ ~plog[i].ret.isNil
               /\ plog[i].ret.nextPacketSize = 0
               /\ plog[i].ret.nextDelay = 0
               /\ IF plog[i].arg \in {"http2-api", "mimic-http2-api", "youtube",
                                      "zoom"}
                  THEN /\ plog[i].ret.PacketSizes = Profiles[plog[i].arg].PacketSizes
                       /\ plog[i].ret.Delays = Profiles[plog[i].arg].Delays
                  ELSE /\ plog[i].ret.PacketSizes = http2apiSizes
                       /\ plog[i].ret.Delays = http2apiDelays

C24_Witness ==
    /\ Len(plog) = 4
    /\ plog[1].op = "profileFromPolicy"
    /\ plog[1].arg = ""
    /\ plog[1].ret.PacketSizes[1].Size = 200
    /\ plog[4].op = "GetDelay"
    /\ plog[4].ret = 15 * Millisecond

(***************************************************************************)
(* Properties of CreateProfileFromObservations, checked under SpecObs      *)
(***************************************************************************)
RECURSIVE countSum(_, _)
countSum(dist, i) ==
    IF i = 0 THEN 0 ELSE dist[i].Weight.count + countSum(dist, i - 1)

\* the weights of a distribution sum to 1: all are over the same positive
\* total, and the counts add up to it
WeightsSumToOne(dist) ==
    /\ Len(dist) > 0
    /\ \A i \in DOMAIN dist : dist[i].Weight.total = dist[1].Weight.total
    /\ dist[1].Weight.total > 0
    /\ countSum(dist, Len(dist)) = dist[1].Weight.total

PositiveOf(values) == { values[i] : i \in { k \in DOMAIN values : values[k] > 0 } }

\* the buckets are exactly the distinct positive sizes, ascending, each
\* weighted by its share of the positive observations
ObsBucketsExact ==
    LET dist == obs.profile.PacketSizes
        pos == PositiveOf(obs.packetSizes)
        npos == Cardinality({ i \in DOMAIN obs.packetSizes : obs.packetSizes[i] > 0 })
    IN /\ { dist[i].Size : i \in DOMAIN dist } = pos
       /\ Len(dist) = Cardinality(pos)
       /\ \A i \in DOMAIN dist : i > 1 => dist[i - 1].Size < dist[i].Size
       /\ \A i \in DOMAIN dist :
              /\ dist[i].Weight.count =
                     Cardinality({ k \in DOMAIN obs.packetSizes :
                                     obs.packetSizes[k] = dist[i].Size })
              /\ dist[i].Weight.total = npos

\* C25: for every non-empty size list with a non-empty delay list,
\* CreateProfileFromObservations succeeds and its PacketSizes are exactly the
\* distinct positive sizes in ascending order, each with weight count/total,
\* and the weights sum to 1; with an empty size or delay list it fails.
C25_ObservationProfile ==
    obs.pc = "done" =>
        IF Len(obs.packetSizes) = 0 \/ Len(obs.delays) = 0
        THEN obs.err # "" /\ obs.profile.isNil
        ELSE /\ obs.err = ""
             /\ ~obs.profile.isNil
             /\ ObsBucketsExact
             /\ WeightsSumToOne(obs.profile.PacketSizes)

\* the same, for size lists that hold at least one positive size
C25_WithAPositiveSize ==
    (obs.pc = "done" /\ PositiveOf(obs.packetSizes) # {}) =>
        IF Len(obs.delays) = 0
        THEN obs.err # "" /\ obs.profile.isNil
        ELSE /\ obs.err = ""
             /\ ObsBucketsExact
             /\ WeightsSumToOne(obs.profile.PacketSizes)

(***************************************************************************)
(* Properties of KolmogorovSmirnovStatistic, checked under SpecKS          *)
(***************************************************************************)
KSab == ks.res[1]
KSba == ks.res[2]
KSaa == ks.res[3]
KSac == ks.res[4]
KSabAgain == ks.res[5]

KSEq(x, y) == x.num * y.den = y.num * x.den
KSLess(x, y) == x.num * y.den < y.num * x.den

ValuesOf(s) == { s[i] : i \in DOMAIN s }
MinOf(s) == CHOOSE v \in ValuesOf(s) : \A w \in ValuesOf(s) : v <= w
MaxOf(s) == CHOOSE v \in ValuesOf(s) : \A w \in ValuesOf(s) : v >= w

\* C26: for every non-empty sample a, the statistic of a against itself is 0.
C26_KSIdentity ==
    (Len(ks.res) >= 3 /\ Len(ks.in.a) > 0) => KSaa.num = 0

\* C27: for all non-empty samples a and b, shared values or not, the
\* statistic of a against b equals that of b against a.
C27_KSSymmetry ==
    (Len(ks.res) >= 2 /\ Len(ks.in.a) > 0 /\ Len(ks.in.b) > 0) =>
        KSEq(KSab, KSba)

\* symmetry for samples that share no value
C27_WithoutSharedValues ==
    (Len(ks.res) >= 2 /\ Len(ks.in.a) > 0 /\ Len(ks.in.b) > 0
        /\ ValuesOf(ks.in.a) \cap ValuesOf(ks.in.b) = {}) =>
        KSEq(KSab, KSba)

\* how many elements of s lie below v, and how many do not lie above it
CountLess(s, v) == Cardinality({k \in DOMAIN s : s[k] < v})
CountLeq(s, v) == Cardinality({k \in DOMAIN s : s[k] <= v})

\* the pairs (elements of a passed, elements of b passed) at which the two
\* empirical distribution functions are compared when equal values count
\* for a first, taken from the values alone: in no order, without a sort
KSPoints(a, b) ==
    UNION { { <<p, CountLess(b, a[k])>> :
                  p \in (CountLess(a, a[k]) + 1)..CountLeq(a, a[k]) } :
            k \in DOMAIN a }
    \cup
    UNION { { <<CountLeq(a, b[k]), q>> :
                  q \in (CountLess(b, b[k]) + 1)..CountLeq(b, b[k]) } :
            k \in DOMAIN b }

\* the value the elements of two samples determine: 1 if one is empty, else
\* the largest distance over KSPoints, as numerator over len(a) * len(b)
KSValueOf(a, b) ==
    IF Len(a) = 0 \/ Len(b) = 0 THEN [num |-> 1, den |-> 1]
    ELSE LET dist(pt) == IF pt[1] * Len(b) < pt[2] * Len(a)
                         THEN pt[2] * Len(a) - pt[1] * Len(b)
                         ELSE pt[1] * Len(b) - pt[2] * Len(a)
             far == CHOOSE pt \in KSPoints(a, b) :
                        \A other \in KSPoints(a, b) : dist(other) <= dist(pt)
         IN  [num |-> dist(far), den |-> Len(a) * Len(b)]

\* C28: the statistic is 1 when either sample is empty and lies in [0, 1]
\* otherwise; the same inputs give the same result again (the first call on
\* a and b and the one made after three other calls on the same slices both
\* return the value the elements of a and b determine); and the callers'
\* slices are left exactly as they were, after every call.
C28_KSRangeAndEdge ==
    /\ Len(ks.res) >= 1 =>
           /\ (Len(ks.in.a) = 0 \/ Len(ks.in.b) = 0) => KSab.num = KSab.den
           /\ KSab.den > 0
           /\ 0 <= KSab.num
           /\ KSab.num <= KSab.den
           /\ KSab = KSValueOf(ks.in.a, ks.in.b)
    /\ Len(ks.res) >= 5 =>
           /\ KSabAgain = KSab
           /\ KSabAgain = KSValueOf(ks.in.a, ks.in.b)
    /\ \A x \in DOMAIN ks.in : ks.slice[x] = ks.in[x]

C28_Witness ==
    /\ Len(ks.res) = 5
    /\ ks.in.a = <<3, 1>>
    /\ ks.in.b = <<2, 1>>
    /\ ks.in.c = <<>>
    /\ KSab.num = 2 /\ KSab.den = 4
    /\ KSac.num = 1 /\ KSac.den = 1

\* a and b overlap: each starts below the other's largest value
Overlap(a, b) == MinOf(b) < MaxOf(a) /\ MinOf(a) < MaxOf(b)

\* C29: for non-empty a and c with max(a) < min(c) the statistic is 1, and
\* for every non-empty b that overlaps a (tie-free or not) the statistic of
\* a against b is strictly lower than that of a against c.
C29_KSOrdering ==
    (Len(ks.res) >= 4 /\ Len(ks.in.a) > 0 /\ Len(ks.in.c) > 0
        /\ MaxOf(ks.in.a) < MinOf(ks.in.c)) =>
        /\ KSac.num = KSac.den
        /\ (Len(ks.in.b) > 0 /\ Overlap(ks.in.a, ks.in.b)) => KSLess(KSab, KSac)

C29_Witness ==
    /\ Len(ks.res) >= 4
    /\ ks.in.a = <<3, 1>>
    /\ ks.in.b = <<2>>
    /\ ks.in.c = <<4, 4>>
    /\ KSab.num = 1 /\ KSab.den = 2
    /\ KSac.num = 4 /\ KSac.den = 4

(***************************************************************************)
(* Properties of the handshake replay window, checked under SpecReplay     *)
(***************************************************************************)
\* c carries the same handshake as d: same nonce, same timestamp
SameHandshake(c, d) ==
    /\ chs[c].Nonce # "none"
    /\ chs[c].Nonce = chs[d].Nonce
    /\ chs[c].Timestamp = chs[d].Timestamp

\* the timestamp of c's handshake was inside the skew window when c's
\* nonce was checked
InWindowAtNonceCheck(c) ==
    validateHandshakeTimestamp(chs[c].Timestamp,
        timeNow([sec |-> clog[c].nonceAt, nsec |-> clock.nsec])) = "ok"

ReplayNeverPassesTwice ==
    \A c1, c2 \in Conns :
        (c1 # c2 /\ SameHandshake(c1, c2))
        => ~(clog[c1].noncePass /\ clog[c2].noncePass)

(***************************************************************************)
(* Properties of the replay set and of ReadFrame's effects, checked under  *)
(* SpecWindow and SpecRead                                                 *)
(***************************************************************************)
OrderSet(s) == {s.replayOrder[i] : i \in 1..Len(s.replayOrder)}

\* at most replayWindowSize hashes; the map's keys are the list's elements;
\* no hash twice in the list
ReplaySetBounded(s) ==
    /\ Cardinality(s.replaySeen) <= replayWindowSize
    /\ OrderSet(s) = s.replaySeen
    /\ Len(s.replayOrder) = Cardinality(s.replaySeen)

\* a step that inserts a hash appends it to the list, and at a full window
\* removes the list's head, the oldest hash, from the list and from the map
EvictsOldest ==
    LET o == win.sess.replayOrder
        o2 == win'.sess.replayOrder
        h == o2[Len(o2)]
    IN  IF o2 = o
        THEN win'.sess.replaySeen = win.sess.replaySeen
        ELSE IF Len(o) = replayWindowSize
        THEN /\ o2 = Append(Tail(o), h)
             /\ win'.sess.replaySeen = (win.sess.replaySeen \ {Head(o)}) \cup {h}
        ELSE /\ o2 = Append(o, h)
             /\ win'.sess.replaySeen = win.sess.replaySeen \cup {h}

\* C31: replay set bound.  In every reachable state of a session the replay
\* set holds at most 1000 hashes, the hashes of the lookup map are those of
\* the insertion-order list, which holds none twice, and the 1001st distinct
\* ciphertext evicts the hash inserted first.
C31_ReplaySetBound ==
    /\ [](win # <<>> => ReplaySetBounded(win.sess))
    /\ [][EvictsOldest]_vars

\* the window is full, 1001 frames were read and the first frame's hash is gone
C31_Witness ==
    /\ win.next = replayWindowSize + 1
    /\ Len(win.sess.replayOrder) = replayWindowSize
    /\ sha256Sum(PeerCiphertext(0)) \notin win.sess.replaySeen
    /\ sha256Sum(PeerCiphertext(1)) = Head(win.sess.replayOrder)

\* C32: a frame that ReadFrame returned successfully is never returned
\* successfully again by the same session: delivered again while its hash is
\* in the replay set it is a replay, and delivered again after more than
\* 1000 later frames evicted its hash it fails the AEAD open under the read
\* counter, which has advanced.
C32_NoSecondSuccess ==
    win # <<>> =>
        \A i \in 1..Len(win.log) :
            LET e == win.log[i]
            IN  e.wasGood =>
                    /\ e.err # ""
                    /\ e.held => e.err = "replay detected"
                    /\ ~e.held => e.err = "message authentication failed"

\* frame 0 was returned, its hash was evicted, and it was delivered again
C32_Witness ==
    /\ win # <<>>
    /\ \E i \in 1..Len(win.log) :
          /\ win.log[i].k = 0
          /\ win.log[i].wasGood
          /\ ~win.log[i].held
          /\ win.log[i].err = "message authentication failed"

\* a call that failed before aead.Open left the session as it found it
ErrorsBeforeOpenKeepSession ==
    win # <<>> =>
        (win.last.err \notin {"", "message authentication failed"}
            => win.last.kept)

\* C33: a ReadFrame call that returns an error (invalid length, short read,
\* replay detected, failed AEAD open) leaves the read counter and the replay
\* set unchanged, so that the peer's next frame in sequence is still
\* accepted: every frame of the peer read in order was returned.
C33_ErrorLeavesSession ==
    win # <<>> =>
        /\ win.last.err # "" => win.last.kept
        /\ win.good = 0..(win.next - 1)

(***************************************************************************)
(* A rejected WriteFrame call, checked under SpecFrames                     *)
(***************************************************************************)
\* C34: a WriteFrame call rejected as "frame too large" does not consume a
\* nonce: the call after it uses the counter value the rejected call would
\* have used, and the reader that takes the frames off the wire in order
\* decrypts every one of them.
C34_RejectedWriteKeepsCounter ==
    /\ \A i \in 1..(Len(calls) - 1) :
          calls[i].err = "frame too large" => calls[i + 1].ctr = calls[i].ctr
    /\ \A i \in 1..Len(reads) :
          reads[i].kind = "next" => reads[i].err = ""

(***************************************************************************)
(* The dispatch of a session, checked under SpecSess                       *)
(***************************************************************************)
\* a DATA payload without a whole prefix addr_len, addr, port
Malformed(p) == Len(p) < 3 \/ Len(p) < 3 + p[1]

\* C35: the Dispatcher is invoked at most once, when the first DATA frame is
\* processed and its destination prefix parsed; before a dispatch succeeded
\* nothing is written upstream and the forwarder is not started (it has
\* taken no step and written nothing to the client); a dispatch error or a
\* malformed prefix ends the session with an error and nothing written
\* upstream.
C35_DispatchOnce ==
    LET ps == DataPayloadsOf(loop.frames)
    IN  /\ loop.dispatched <= 1
        /\ loop.dispatched = 1 => (ps # <<>> /\ ~Malformed(Head(ps)))
        /\ (ps # <<>> /\ loop.dispatched = 0) =>
               /\ Len(ps) = 1
               /\ IF Malformed(Head(ps))
                  THEN /\ loop.pc = "done"
                       /\ loop.ret \in {"data frame too short",
                                        "data frame missing destination"}
                  ELSE loop.pc = "dispatch"
        /\ (loop.dispatched = 1 /\ ~loop.link) =>
               /\ Len(ps) = 1
               /\ loop.pc = "done"
               /\ loop.ret = "dispatch error"
        /\ ~loop.link =>
               /\ up.out = <<>>
               /\ up.fpc = "none"
               /\ up.nbuf = 0
               /\ up.errCh = <<>>
               /\ mout = <<>>
        /\ loop.pc = "go" => (up.fpc = "none" /\ up.out = <<>>)

\* a control frame, then the first DATA frame, whose dispatch failed
C35_Witness ==
    /\ Len(loop.frames) = 2
    /\ loop.frames[1].Type = FrameTypePadding
    /\ loop.frames[2].Type = FrameTypeData
    /\ loop.dispatched = 1
    /\ loop.dest = <<"tcp", <<97>>, 80>>
    /\ loop.ret = "dispatch error"
    /\ up.out = <<>>

(***************************************************************************)
(* The sweep of the nonce store, checked under SpecReplay                  *)
(***************************************************************************)
\* the entry of nonce x is at most the lifetime old at the time `now`
Alive(store, x, now) ==
    x \in DOMAIN store /\ now - store[x] <= defaultNonceLifetime

\* a step in which c's checkAndStoreNonce call sweeps and looks up: nothing
\* expired is left, nothing alive is deleted or changed, and the call goes
\* on to store the nonce exactly when the store held no live entry for it
SweepAndLookup(c) ==
    (cpc[c] = "nonce" /\ cpc'[c] # "nonce") =>
        /\ \A x \in DOMAIN seenNonces' : Alive(seenNonces', x, clock.sec)
        /\ \A x \in DOMAIN seenNonces :
              Alive(seenNonces, x, clock.sec)
                  => (x \in DOMAIN seenNonces' /\ seenNonces'[x] = seenNonces[x])
        /\ cpc'[c] = "store" <=> ~Alive(seenNonces, chs[c].Nonce, clock.sec)
        /\ cpc'[c] # "store" => clog'[c].fail = "nonce"

\* a step in which c's call stores its nonce with the time it read
StoreAfterLookup(c) ==
    (cpc[c] = "store" /\ cpc'[c] # "store") =>
        /\ DOMAIN seenNonces' = DOMAIN seenNonces \cup {chs[c].Nonce}
        /\ seenNonces'[chs[c].Nonce] = clog[c].nonceAt
        /\ \A x \in DOMAIN seenNonces :
              x # chs[c].Nonce => seenNonces'[x] = seenNonces[x]

\* C36: every checkAndStoreNonce call first deletes the entries with
\* now - first_seen > lifetime and no other, so after it none is left and no
\* entry is deleted while now - first_seen <= lifetime; a nonce is rejected
\* iff it was inserted at most `lifetime` ago, and a nonce presented again
\* after its entry expired is accepted and inserted again.
C36_NonceSweep ==
    [][ /\ \A c \in Conns : SweepAndLookup(c) /\ StoreAfterLookup(c)
        /\ \A x \in DOMAIN seenNonces :
              Alive(seenNonces, x, clock.sec) => x \in DOMAIN seenNonces' ]_vars

\* the nonce stored by connection 1 expired and was accepted again from
\* connection 2, whose entry replaced it
C36_Witness ==
    /\ SameHandshake(1, 2)
    /\ clog[1].noncePass
    /\ clog[2].noncePass
    /\ clog[2].nonceAt - clog[1].nonceAt > defaultNonceLifetime
    /\ chs[2].Nonce \in DOMAIN seenNonces
    /\ seenNonces[chs[2].Nonce] = clog[2].nonceAt

(***************************************************************************)
(* Weighted sampling, checked under SpecPick                               *)
(***************************************************************************)
\* the buckets of values whose cumulative weight reaches u
Reached(values, u) == {i \in 1..Len(values) : weightSum(values, i) >= u}

\* C37: for a non-empty bucket list and a draw u the pick is the size of the
\* first bucket, in list order, whose cumulative weight is >= u, and the
\* last bucket's size when no cumulative weight reaches u; it is the size
\* of one of the buckets; an empty list yields 0.
C37_WeightedPick ==
    (pk # <<>> /\ pk.pc = "done") =>
        LET values == pk.values
            hits == Reached(values, pk.pick)
        IN  IF values = <<>> THEN pk.res = 0
            ELSE /\ \E i \in 1..Len(values) : pk.res = values[i].Size
                 /\ hits = {} => pk.res = values[Len(values)].Size
                 /\ \A i \in hits :
                       (\A j \in hits : i <= j) => pk.res = values[i].Size

\* the draw is reached exactly at the second of three buckets
C37_Witness ==
    /\ pk # <<>>
    /\ pk.pc = "done"
    /\ Len(pk.values) = 3
    /\ pk.values[1].Size = 200
    /\ pk.values[2].Size = 500
    /\ pk.values[3].Size = 200
    /\ weightSum(pk.values, 1) < pk.pick
    /\ weightSum(pk.values, 2) = pk.pick
    /\ pk.res = 500

(***************************************************************************)
(* Properties of the chunk loop of WriteFrameWithMorphing, checked under   *)
(* SpecMorph                                                               *)
(***************************************************************************)

\* the payloads em[i..] that are DATA frames lie end to end in data from
\* byte offset on and reach its end
RECURSIVE JoinsTo(_, _, _, _)
JoinsTo(em, data, i, offset) ==
    IF i > Len(em) THEN offset = data.n
    ELSE IF em[i].ftype # FrameTypeData THEN JoinsTo(em, data, i + 1, offset)
    ELSE /\ em[i].pt.d = <<data.d, offset>>
         /\ JoinsTo(em, data, i + 1, offset + em[i].pt.n)

\* every DATA frame of em is non-empty and is followed by a PADDING frame
\* that announces a target no smaller than the frame's payload
PaddedChunks(em) ==
    \A i \in 1..Len(em) :
        em[i].ftype = FrameTypeData =>
            /\ em[i].pt.n >= 1
            /\ i < Len(em)
            /\ em[i + 1].ftype = FrameTypePadding
            /\ em[i + 1].pt.n = 2
            /\ em[i].pt.n <= em[i + 1].pt.d

\* C38: a WriteFrameWithMorphing(DATA, data) call on a session with a
\* profile that has returned without error has emitted DATA frames whose
\* payloads, in emission order, are the consecutive pieces of data and
\* together all of it, each non-empty and no longer than the target the
\* PADDING frame after it announces; for empty data it has emitted no frame.
C38_MorphingPreservesData ==
    LET call == mtask[1]
    IN  (call.pc = "ret" /\ call.err = "" /\ call.ftype = FrameTypeData
            /\ ~profile.isNil) =>
            /\ JoinsTo(call.emitted, call.data, 1, 0)
            /\ PaddedChunks(call.emitted)
            /\ call.data.n = 0 => call.emitted = <<>>

C38_Witness ==
    LET call == mtask[1]
    IN  /\ call.pc = "ret" /\ call.err = "" /\ call.ftype = FrameTypeData
        /\ ~profile.isNil
        /\ call.data.n = 7
        /\ Cardinality({i \in 1..Len(call.emitted) :
               call.emitted[i].ftype = FrameTypeData}) = 3
        /\ call.emitted[Len(call.emitted) - 1].pt.n = 1

(***************************************************************************)
(* Progress of detection, checked under SpecDetectLive                     *)
(***************************************************************************)

\* Process has classified connection c and handed it to a handler
Routed(c) == clog[c].route # "none"

\* C39: a connection in detection whose client has sent at least 5 bytes
\* and waits with the connection open is eventually classified and routed.
C39_DetectionProgress ==
    \A c \in Conns :
        (cpc[c] = "detect" /\ cin[c].n >= 5 /\ cin[c].fin = "open")
            ~> Routed(c)

\* what holds instead: such a connection is routed only when the client's
\* bytes fill the peek; with fewer the handler stays in Peek
C39_RoutedOnlyWhenFull ==
    \A c \in Conns :
        (cin[c].fin = "open" /\ Routed(c))
            => cin[c].n >= reflexMinHandshakeSize

(***************************************************************************)
(* Properties of the handshake parsers, checked under SpecParse            *)
(***************************************************************************)
Returned(res) == res # NoResult

Accepted(res, hs) == res = [err |-> "", hs |-> hs]

\* both parsers return the handshake from its own encoding
BothReturnHandshake ==
    hp.field = -1 =>
        /\ Returned(hp.read) => Accepted(hp.read, hp.hs)
        /\ Returned(hp.parse) => Accepted(hp.parse, hp.hs)

\* both parsers refuse a policy length field above maxPolicyPayloadSize
BothRefuseLargePolicy ==
    hp.field > maxPolicyPayloadSize =>
        /\ Returned(hp.read) => hp.read.err # ""
        /\ Returned(hp.parse) => hp.parse.err # ""

\* C40: both parsers return a handshake with a policy request of at most
\* 4096 bytes from its encoding, both refuse a larger policy length field,
\* and in the HTTP framing a payload sent without the magic is parsed as
\* the same payload sent with it.
C40_ParsersAgree ==
    /\ BothReturnHandshake
    /\ BothRefuseLargePolicy
    /\ (Returned(hp.bare) /\ Returned(hp.magic)) => hp.bare = hp.magic

\* what holds instead: the two HTTP payloads are parsed alike unless the
\* public key begins with the bytes of the magic
C40_AgreeUnlessKeyIsMagic ==
    /\ BothReturnHandshake
    /\ BothRefuseLargePolicy
    /\ (Returned(hp.bare) /\ Returned(hp.magic)
            /\ SubSeq(hp.hs.PublicKey, 1, 4) # MagicBytes)
           => hp.bare = hp.magic

\* a payload sent without the magic is accepted as another handshake
C40_ShiftedHandshake ==
    /\ hp.bare.err = ""
    /\ hp.bare.hs # hp.hs
    /\ hp.field = -1
====
